---- MODULE Spec2Model ----
(***************************************************************************)
(* Model of the finance dashboard's categorization and override-key        *)
(* subsystem (finance_dashboard/categorization, finance_dashboard/config   *)
(* and the combined-view assembly and transaction editor of app.py).       *)
(*                                                                         *)
(* Text is modelled as a sequence of one-character strings, so that        *)
(* slicing, replacing, lower-casing and substring search are computed the  *)
(* way the Python code computes them.  A pandas missing value (NaN / NaT)  *)
(* is a marker of the same shape as the values of its column:              *)
(*   text   : NULL == <<"<NA>">>  (no real text holds the element "<NA>")   *)
(*   date   : NaT  == <<>>        (a date is <<year, month, day>>)          *)
(*   amount : NaN  == <<>>        (an amount is <<cents>>)                  *)
(* A row is a function from the column names it has to their values; a     *)
(* column the row lacks is simply not in its DOMAIN.                       *)
(***************************************************************************)
EXTENDS Integers, Sequences, FiniteSets, TLC

VARIABLES
    args,        \* arguments of the pure function under check
    ret,         \* what the function returned (per function, NotCalled before)
    store,       \* the rule-store document (categories.json)
    csv,         \* the parsed rows of the CSV exports in data_dir
    giro_dfs,    \* load_all_data's checking-account batch
    visa_dfs,    \* load_all_data's card batch
    sorted_df,   \* prepare_combined_data: combined_df after line 92
    override_df, \* prepare_combined_data: combined_df after line 105
    combined_df, \* prepare_combined_data's return value (the combined view)
    last_edit,   \* the editor's last saved change: <<<<key, new_cat>>>>, or <<>>
    cache,       \* the entries of the two st.cache_data caches (load_all_data, prepare_combined_data)
    tie_order,   \* what the build's sort does with rows of equal date: "kept" or "reversed"
    json_file,   \* categories.json on disk as save_categories wrote it, or NoFile
    pc           \* position of the streamlit script run

vars == <<args, ret, store, csv, giro_dfs, visa_dfs, sorted_df, override_df, combined_df,
          last_edit, cache, tie_order, json_file, pc>>

-----------------------------------------------------------------------------
(* Bounds of the model.                                                    *)

\* longest free tail of a description in the key specification
MaxTail == 2
\* largest number of keyword-rule categories in a rule store
MaxRules == 2

-----------------------------------------------------------------------------
(* Text primitives.                                                        *)

NULL == <<"<NA>">>
\* the two caches of st.cache_data with no entry (loader.py line 108, app.py line 70)
NoCache == [load_all_data |-> <<>>, prepare_combined_data |-> <<>>]

\* a file that does not exist
NoFile == [exists |-> FALSE]
NaT == <<>>
NaN == <<>>

RECURSIVE BoundedSeq(_, _)
\* all sequences over S of length at most n
BoundedSeq(S, n) ==
    IF n = 0 THEN {<<>>}
    ELSE LET shorter == BoundedSeq(S, n - 1)
         IN  shorter \cup {Append(s, c) : s \in {t \in shorter : Len(t) = n - 1}, c \in S}

\* n copies of the character c
Rep(c, n) == [i \in 1..n |-> c]

\* str.lower() on one character of the model's alphabet
LowerChar(c) ==
    CASE c = "K" -> "k"
      [] c = "A" -> "a"
      [] c = "D" -> "d"
      [] c = "E" -> "e"
      [] OTHER -> c

\* str.upper() on one character of the model's alphabet
UpperChar(c) ==
    CASE c = "k" -> "K"
      [] c = "a" -> "A"
      [] c = "d" -> "D"
      [] c = "e" -> "E"
      [] OTHER -> c

Lower(s) == [i \in 1..Len(s) |-> LowerChar(s[i])]
Upper(s) == [i \in 1..Len(s) |-> UpperChar(s[i])]

\* Python's  pat in text
Contains(text, pat) ==
    \E i \in 0..(Len(text) - Len(pat)) : SubSeq(text, i + 1, i + Len(pat)) = pat

\* Python's  s[:n]
Prefix(s, n) == SubSeq(s, 1, IF Len(s) < n THEN Len(s) ELSE n)

\* Python's  s.replace(old, new)  for single characters
ReplaceChar(s, old, new) == [i \in 1..Len(s) |-> IF s[i] = old THEN new ELSE s[i]]

\* the characters str.strip() removes, of the model's alphabet
Whitespace == {" ", "\t", "\n", "\r"}

\* Python's  s.strip()
RECURSIVE LStrip(_)
LStrip(s) == IF s # <<>> /\ Head(s) \in Whitespace THEN LStrip(Tail(s)) ELSE s
RECURSIVE RStrip(_)
RStrip(s) == IF s # <<>> /\ s[Len(s)] \in Whitespace THEN RStrip(SubSeq(s, 1, Len(s) - 1)) ELSE s
Strip(s) == RStrip(LStrip(s))

Digit(n) == <<"0", "1", "2", "3", "4", "5", "6", "7", "8", "9">>[n + 1]

RECURSIVE NatStr(_)
\* decimal digits of a natural number
NatStr(n) == IF n < 10 THEN <<Digit(n)>> ELSE Append(NatStr(n \div 10), Digit(n % 10))

Pad2(n) == <<Digit(n \div 10), Digit(n % 10)>>
Pad4(n) == <<Digit(n \div 1000), Digit((n \div 100) % 10), Digit((n \div 10) % 10), Digit(n % 10)>>


-----------------------------------------------------------------------------
(* Regular expressions: Python's re module as far as the code uses it.     *)
(* A pattern is text; re.compile reads  \c  as the literal c,  .  as any   *)
(* character but the line break,  x*  as any number of x, and  |  as the   *)
(* separator of alternatives.  Both callers compile with re.IGNORECASE.    *)

\* the characters re.escape puts a backslash before (re._special_chars_map)
SpecialChars ==
    {"(", ")", "[", "]", "{", "}", "?", "*", "+", "-", "|", "^", "$", "\\",
     ".", "&", "~", "#", " ", "\t", "\n", "\r"}

RECURSIVE Escape(_)
\* re.escape(s)
Escape(s) ==
    IF s = <<>> THEN <<>>
    ELSE (IF Head(s) \in SpecialChars THEN <<"\\", Head(s)>> ELSE <<Head(s)>>) \o Escape(Tail(s))

RECURSIVE Join(_, _)
\* sep.join(parts)
Join(sep, parts) ==
    IF parts = <<>> THEN <<>>
    ELSE IF Len(parts) = 1 THEN parts[1]
    ELSE parts[1] \o sep \o Join(sep, Tail(parts))

RECURSIVE SplitAlt(_)
\* the alternatives of a pattern: its pieces between the  |  that are not escaped
SplitAlt(r) ==
    IF r = <<>> THEN << <<>> >>
    ELSE IF r[1] = "\\" /\ Len(r) >= 2
         THEN LET rest == SplitAlt(SubSeq(r, 3, Len(r)))
              IN  <<(<<r[1], r[2]>> \o Head(rest))>> \o Tail(rest)
    ELSE IF r[1] = "|" THEN << <<>> >> \o SplitAlt(Tail(r))
    ELSE LET rest == SplitAlt(Tail(r))
         IN  <<(<<r[1]>> \o Head(rest))>> \o Tail(rest)

RECURSIVE ParseAtoms(_)
\* the atoms of one alternative, each with its  *  if one follows
ParseAtoms(r) ==
    IF r = <<>> THEN <<>>
    ELSE LET escaped == r[1] = "\\" /\ Len(r) >= 2
             width == IF escaped THEN 2 ELSE 1
             starred == Len(r) > width /\ r[width + 1] = "*"
             atom == [kind |-> IF ~escaped /\ r[1] = "." THEN "any" ELSE "lit",
                      ch |-> IF escaped THEN r[2] ELSE r[1],
                      star |-> starred]
         IN  <<atom>> \o ParseAtoms(SubSeq(r, width + (IF starred THEN 2 ELSE 1), Len(r)))

\* re.compile(pattern, re.IGNORECASE)
re_compile(pattern) ==
    LET alts == SplitAlt(pattern) IN [a \in 1..Len(alts) |-> ParseAtoms(alts[a])]

\* one atom against one character, letter case ignored
AtomMatches(atom, c) ==
    IF atom.kind = "any" THEN c # "\n" ELSE LowerChar(atom.ch) = LowerChar(c)

RECURSIVE MatchHere(_, _)
\* the atoms match a prefix of the text
MatchHere(atoms, text) ==
    IF atoms = <<>> THEN TRUE
    ELSE IF Head(atoms).star
         THEN \E n \in 0..Len(text) :
                 /\ \A i \in 1..n : AtomMatches(Head(atoms), text[i])
                 /\ MatchHere(Tail(atoms), SubSeq(text, n + 1, Len(text)))
    ELSE /\ text # <<>>
         /\ AtomMatches(Head(atoms), Head(text))
         /\ MatchHere(Tail(atoms), Tail(text))

\* regex.search(text) is not None
Search(regex, text) ==
    \E a \in 1..Len(regex), s \in 0..Len(text) :
        MatchHere(regex[a], SubSeq(text, s + 1, Len(text)))

-----------------------------------------------------------------------------
(* Override keys: finance_dashboard/categorization/overrides.py            *)

\* the description slice kept by the legacy key (overrides.py line 36)
TruncLen == 30

\* a row access that raised KeyError (no key string holds this element)
KeyError == <<"<KeyError>">>

\* str(v) of a text cell: a pandas missing value prints as "nan"
StrOf(v) == IF v = NULL THEN <<"n", "a", "n">> ELSE v

\* datetime.strftime("%Y-%m-%d")
Strftime(d) == Pad4(d[1]) \o <<"-">> \o Pad2(d[2]) \o <<"-">> \o Pad2(d[3])

\* f"{x:.2f}" of an amount held in cents; NaN formats as "nan"
Format2f(x) ==
    IF x = NaN THEN <<"n", "a", "n">>
    ELSE LET c == x[1]
             abs == IF c < 0 THEN 0 - c ELSE c
         IN  (IF c < 0 THEN <<"-">> ELSE <<>>) \o NatStr(abs \div 100) \o <<".">> \o Pad2(abs % 100)

\* row["Datum"].strftime("%Y-%m-%d") if pd.notna(row["Datum"]) else "unknown"
DateStr(row) ==
    IF row.Datum # NaT THEN Strftime(row.Datum)
    ELSE <<"u", "n", "k", "n", "o", "w", "n">>

\* str(row.get("Beschreibung", ""))
DescStr(row) == StrOf(IF "Beschreibung" \in DOMAIN row THEN row.Beschreibung ELSE <<>>)

\* f"{row.get('Betrag', 0):.2f}"
AmountStr(row) == Format2f(IF "Betrag" \in DOMAIN row THEN row.Betrag ELSE <<0>>)

\* hashlib.md5(desc.encode()).hexdigest()[:12].  MD5 is not computed: the digest
\* is an injective image of the description (the hash is taken as collision-free),
\* distinct from every description and free of the characters "_" and "/".
DescHash(desc) == <<"md5[">> \o desc \o <<"]">>

\* a digest of the truncated description
DescHashOfPrefix(desc) == DescHash(Prefix(desc, TruncLen))

\* the description segment of the current key
HashSegment(row) == DescHash(DescStr(row))

\* a legacy segment that forgets the "/" replacement
LegacySegmentNoReplace(row) == Prefix(DescStr(row), TruncLen)
\* a legacy segment that replaces before slicing one character too many
LegacySegmentOffByOne(row) == ReplaceChar(Prefix(DescStr(row), TruncLen + 1), "/", "-")

\* str(row.get("Beschreibung", ""))[:30].replace("/", "-")
LegacySegment(row) == ReplaceChar(Prefix(DescStr(row), TruncLen), "/", "-")

\* a current key that also reads the account
KeyWithAccount(row) ==
    IF "Datum" \notin DOMAIN row THEN KeyError
    ELSE DateStr(row) \o <<"_">> \o HashSegment(row) \o <<"_">> \o AmountStr(row)
         \o <<"_">> \o <<row.Konto>>

\* a current key built from the digest of the truncated description
KeyOfPrefixHash(row) ==
    IF "Datum" \notin DOMAIN row THEN KeyError
    ELSE DateStr(row) \o <<"_">> \o DescHashOfPrefix(DescStr(row)) \o <<"_">> \o AmountStr(row)

\* get_override_key(row); row["Datum"] raises KeyError when the row has no Datum
get_override_key(row) ==
    IF "Datum" \notin DOMAIN row THEN KeyError
    ELSE DateStr(row) \o <<"_">> \o HashSegment(row) \o <<"_">> \o AmountStr(row)

\* get_legacy_override_key(row)
get_legacy_override_key(row) ==
    IF "Datum" \notin DOMAIN row THEN KeyError
    ELSE DateStr(row) \o <<"_">> \o LegacySegment(row) \o <<"_">> \o AmountStr(row)

-----------------------------------------------------------------------------
(* Categorizer: finance_dashboard/categorization/rules.py                  *)
(*                                                                         *)
(* A mapping of the rule store (a Python dict, which keeps insertion       *)
(* order) is a sequence of <<key, value>> pairs with distinct keys.        *)

\* the default category (rules.py line 25)
Sonstiges == "Sonstiges"

Keys(mapping) == {mapping[i][1] : i \in 1..Len(mapping)}

\* dict.get(section, {}) on the rule-store document
Section(cfg, name) == IF name \in DOMAIN cfg THEN cfg[name] ELSE <<>>

\* series.fillna("").astype(str) on one text cell
FillNa(v) == IF v = NULL THEN <<>> ELSE v

\* the match text of one row (rules.py lines 28-33)
MatchText(row, is_visa) ==
    IF is_visa THEN Lower(FillNa(row.Beschreibung))
    ELSE Lower(FillNa(row.Zahlungsempfaenger) \o <<" ">> \o FillNa(row.Verwendungszweck))

\* a keyword search that compares the keyword's letters as written
MatchesAnyCaseSensitive(desc, keywords) ==
    \E i \in 1..Len(keywords) : Contains(desc, keywords[i])

\* a keyword search whose pattern joins the keywords as written, not escaped
MatchesAnyUnescaped(desc, keywords) ==
    Search(re_compile(Join(<<"|">>, keywords)), desc)

\* desc.str.contains("|".join(re.escape(k) for k in keywords), case=False)
\* (rules.py lines 41-42)
MatchesAny(desc, keywords) ==
    Search(re_compile(Join(<<"|">>, [i \in 1..Len(keywords) |-> Escape(keywords[i])])), desc)

\* one pass of the keyword loop that overwrites whatever an earlier pass assigned
RuleStepLastWins(cat, rule, desc) ==
    IF rule[2] = <<>> THEN cat
    ELSE IF MatchesAny(desc, rule[2]) THEN rule[1] ELSE cat

\* one pass of the keyword loop (rules.py lines 37-44): the row takes the
\* category when a keyword matches and it still holds "Sonstiges"
RuleStep(cat, rule, desc) ==
    IF rule[2] = <<>> THEN cat
    ELSE IF MatchesAny(desc, rule[2]) /\ cat = Sonstiges THEN rule[1] ELSE cat

RECURSIVE ApplyRules(_, _, _)
\* the keyword loop over rules.items(), in the mapping's order
ApplyRules(cat, rules, desc) ==
    IF rules = <<>> THEN cat
    ELSE ApplyRules(RuleStep(cat, Head(rules), desc), Tail(rules), desc)

\* an IBAN pass that only fills rows the keyword rules left at the default
IbanStepOnlyDefault(cat, rule, iban) ==
    IF Upper(FillNa(iban)) = Upper(rule[1]) /\ cat = Sonstiges THEN rule[2] ELSE cat

\* an IBAN pass that compares the row's IBAN as written
IbanStepCaseSensitive(cat, rule, iban) ==
    IF FillNa(iban) = Upper(rule[1]) THEN rule[2] ELSE cat

\* one pass of the IBAN loop (rules.py lines 50-53)
IbanStep(cat, rule, iban) ==
    IF Upper(FillNa(iban)) = Upper(rule[1]) THEN rule[2] ELSE cat

RECURSIVE ApplyIbanRules(_, _, _)
ApplyIbanRules(cat, iban_rules, iban) ==
    IF iban_rules = <<>> THEN cat
    ELSE ApplyIbanRules(IbanStep(cat, Head(iban_rules), iban), Tail(iban_rules), iban)

\* a categorizer that applies the IBAN rules to every batch with an IBAN column
CategorizeRowIbanAlways(row, is_visa, cfg) ==
    LET byKeyword == ApplyRules(Sonstiges, Section(cfg, "rules"), MatchText(row, is_visa))
    IN  IF "IBAN" \in DOMAIN row
        THEN ApplyIbanRules(byKeyword, Section(cfg, "iban_rules"), row.IBAN)
        ELSE byKeyword

\* the category of one row of the batch
CategorizeRow(row, is_visa, cfg) ==
    LET byKeyword == ApplyRules(Sonstiges, Section(cfg, "rules"), MatchText(row, is_visa))
    IN  IF ~is_visa /\ "IBAN" \in DOMAIN row
        THEN ApplyIbanRules(byKeyword, Section(cfg, "iban_rules"), row.IBAN)
        ELSE byKeyword

\* categorize_transactions_vectorized(df, is_visa, categories_config): one
\* category per row, aligned with the batch
categorize_transactions_vectorized(df, is_visa, cfg) ==
    [i \in 1..Len(df) |-> CategorizeRow(df[i], is_visa, cfg)]

-----------------------------------------------------------------------------
(* Description clusters: finance_dashboard/categorization/clusters.py      *)

RECURSIVE ReplaceEscapedStar(_)
\* escaped.replace(r"\*", ".*")  (clusters.py line 28)
ReplaceEscapedStar(s) ==
    IF s = <<>> THEN <<>>
    ELSE IF Len(s) >= 2 /\ s[1] = "\\" /\ s[2] = "*"
         THEN <<".", "*">> \o ReplaceEscapedStar(SubSeq(s, 3, Len(s)))
    ELSE <<Head(s)>> \o ReplaceEscapedStar(Tail(s))

\* one pattern compiled (clusters.py lines 27-29); the pattern is trimmed already
CompilePattern(pattern) == re_compile(ReplaceEscapedStar(Escape(pattern)))

RECURSIVE CompilePatterns(_)
\* the inner loop of _compile_cluster_rules (clusters.py lines 22-29):
\* patterns are trimmed, and those that are empty then are left out
CompilePatterns(patterns) ==
    IF patterns = <<>> THEN <<>>
    ELSE LET pattern == Strip(Head(patterns))
         IN  (IF pattern = <<>> THEN <<>> ELSE <<CompilePattern(pattern)>>)
             \o CompilePatterns(Tail(patterns))

RECURSIVE _compile_cluster_rules(_)
\* _compile_cluster_rules(cluster_rules): <<label, compiled_patterns>> pairs in
\* the mapping's order (clusters.py lines 17-32)
_compile_cluster_rules(cluster_rules) ==
    IF cluster_rules = <<>> THEN <<>>
    ELSE LET label == Strip(Head(cluster_rules)[1])
             compiled_patterns == CompilePatterns(Head(cluster_rules)[2])
         IN  (IF label = <<>> \/ compiled_patterns = <<>> THEN <<>>
              ELSE << <<label, compiled_patterns>> >>)
             \o _compile_cluster_rules(Tail(cluster_rules))

RECURSIVE FirstLabel(_, _)
\* the loop of match_cluster (clusters.py lines 51-55)
FirstLabel(compiled_rules, text) ==
    IF compiled_rules = <<>> THEN text
    ELSE IF \E k \in 1..Len(Head(compiled_rules)[2]) : Search(Head(compiled_rules)[2][k], text)
         THEN Head(compiled_rules)[1]
    ELSE FirstLabel(Tail(compiled_rules), text)

\* match_cluster(description) (clusters.py lines 49-55)
match_cluster(description, compiled_rules) ==
    FirstLabel(compiled_rules, IF description = NULL THEN <<>> ELSE description)

\* an apply_description_clusters that tries the clusters last to first
ApplyClustersLastWins(descriptions, cluster_rules) ==
    LET compiled_rules == _compile_cluster_rules(cluster_rules)
        reversed == [i \in 1..Len(compiled_rules) |-> compiled_rules[Len(compiled_rules) + 1 - i]]
    IN  [i \in 1..Len(descriptions) |-> match_cluster(descriptions[i], reversed)]

\* apply_description_clusters(descriptions, cluster_rules) (clusters.py lines 45-57)
apply_description_clusters(descriptions, cluster_rules) ==
    LET compiled_rules == _compile_cluster_rules(cluster_rules)
    IN  IF compiled_rules = <<>> THEN descriptions
        ELSE [i \in 1..Len(descriptions) |-> match_cluster(descriptions[i], compiled_rules)]

-----------------------------------------------------------------------------
(* Specification SpecKeys: the two key functions applied to a pair of rows *)
(* that agree on date and amount.                                          *)

\* a column the row does not have
ABSENT == <<"<absent>", "">>
\* a function that has not returned yet
NotCalled == <<>>

NoCols == [c \in {} |-> c]

\* a row with the given cells; a cell given as ABSENT is left out of the row
Row(datum, desc, betrag, konto, kat) ==
    [Konto |-> konto, Kategorie |-> kat]
    @@ (IF datum = ABSENT THEN NoCols ELSE [Datum |-> datum])
    @@ (IF desc = ABSENT THEN NoCols ELSE [Beschreibung |-> desc])
    @@ (IF betrag = ABSENT THEN NoCols ELSE [Betrag |-> betrag])

KeyDates == {<<2024, 1, 15>>, <<2023, 12, 31>>}
KeyAmounts == {<<-4599>>, <<5>>}
KeyChars == {"a", "/"}
\* short descriptions, and descriptions around the 30-character cut
KeyDescs ==
    {Rep("x", n) \o t : n \in {0, TruncLen - 1}, t \in BoundedSeq(KeyChars, MaxTail)}

\* values of variables a specification does not use
IdleStore == [rules |-> <<>>, iban_rules |-> <<>>, overrides |-> <<>>, config |-> <<>>]
IdleCsv == [giro |-> <<>>, visa |-> <<>>]

InitKeys ==
    /\ \E d \in KeyDates \cup {NaT, ABSENT},
          b \in KeyAmounts \cup {NaN, ABSENT},
          s1 \in KeyDescs \cup {NULL, ABSENT},
          s2 \in KeyDescs \cup {NULL, ABSENT},
          other \in {<<"DE1", "A">>, <<"Visa Kreditkarte", "B">>} :
            args = [a |-> Row(d, s1, b, "DE1", "A"),
                    b |-> Row(d, s2, b, other[1], other[2])]
    /\ ret = [key |-> NotCalled, legacy |-> NotCalled]
    /\ store = IdleStore
    /\ csv = IdleCsv
    /\ giro_dfs = <<>>
    /\ visa_dfs = <<>>
    /\ sorted_df = <<>>
    /\ override_df = <<>>
    /\ combined_df = <<>>
    /\ last_edit = <<>>
    /\ tie_order = "kept"
    /\ cache = NoCache
    /\ json_file = NoFile
    /\ pc = "keys"

CallGetOverrideKey ==
    /\ pc = "keys"
    /\ ret.key = NotCalled
    /\ ret' = [ret EXCEPT !.key = <<get_override_key(args.a), get_override_key(args.b)>>]
    /\ UNCHANGED <<cache, tie_order, json_file, args, store, csv, giro_dfs, visa_dfs, sorted_df, override_df, combined_df, last_edit, pc>>

CallGetLegacyOverrideKey ==
    /\ pc = "keys"
    /\ ret.legacy = NotCalled
    /\ ret' = [ret EXCEPT !.legacy = <<get_legacy_override_key(args.a),
                                       get_legacy_override_key(args.b)>>]
    /\ UNCHANGED <<cache, tie_order, json_file, args, store, csv, giro_dfs, visa_dfs, sorted_df, override_df, combined_df, last_edit, pc>>

NextKeys == CallGetOverrideKey \/ CallGetLegacyOverrideKey

SpecKeys == InitKeys /\ [][NextKeys]_vars

KeysReturned == pc = "keys" /\ ret.key # NotCalled /\ ret.legacy # NotCalled

\* the row holds a description text (the column is there and is not null)
HasText(row) == "Beschreibung" \in DOMAIN row /\ row.Beschreibung # NULL

-----------------------------------------------------------------------------
(* Specification SpecCategorize: categorize_transactions_vectorized        *)
(* applied to one batch under a rule store drawn from bounded sets.        *)

CatNames == {"A", "B", Sonstiges}
\* keyword lists: none, a lower-case keyword, an upper-case keyword, both
KeywordLists == {<<>>, <<<<"k">>>>, <<<<"A">>>>, <<<<"k">>, <<"A">>>>}

DistinctKeys(mapping) == \A i, j \in 1..Len(mapping) : mapping[i][1] = mapping[j][1] => i = j

\* the rules sections with at most n categories
RuleSections(names, lists, n) ==
    {r \in BoundedSeq({<<c, kws>> : c \in names, kws \in lists}, n) : DistinctKeys(r)}

DE1 == <<"D", "E", "1">>
DE2 == <<"D", "E", "2">>
\* the iban_rules sections: keys are stored upper-case (app.py lines 1413-1414)
IbanSections ==
    {r \in BoundedSeq({<<DE1, "Gehalt">>, <<DE1, "A">>, <<DE2, "Umbuchungen">>}, 2) :
        DistinctKeys(r)}

GiroBatchRows ==
    {[Zahlungsempfaenger |-> e, Verwendungszweck |-> z] @@ iban :
        e \in {NULL, <<"K">>, <<"x">>},
        z \in {NULL, <<"a">>, <<"x">>},
        iban \in {NoCols} \cup {[IBAN |-> v] : v \in {NULL, <<"d", "e", "1">>, DE2, <<"D", "E", "3">>}}}

VisaBatchRows ==
    {[Beschreibung |-> d] @@ iban :
        d \in {NULL, <<>>, <<"K">>, <<"a">>, <<"K", "a">>, <<"x">>},
        iban \in {NoCols, [IBAN |-> DE1]}}

InitCategorize ==
    /\ \E rules \in RuleSections(CatNames, KeywordLists, MaxRules), iban_rules \in IbanSections, is_visa \in BOOLEAN :
         \E df \in {<<>>} \cup {<<r>> : r \in IF is_visa THEN VisaBatchRows ELSE GiroBatchRows} :
            args = [df |-> df, is_visa |-> is_visa,
                    categories_config |-> [rules |-> rules, iban_rules |-> iban_rules]]
    /\ ret = <<>>
    /\ store = IdleStore
    /\ csv = IdleCsv
    /\ giro_dfs = <<>>
    /\ visa_dfs = <<>>
    /\ sorted_df = <<>>
    /\ override_df = <<>>
    /\ combined_df = <<>>
    /\ last_edit = <<>>
    /\ tie_order = "kept"
    /\ cache = NoCache
    /\ json_file = NoFile
    /\ pc = "categorize"

CallCategorize ==
    /\ pc = "categorize"
    /\ ret' = categorize_transactions_vectorized(args.df, args.is_visa, args.categories_config)
    /\ pc' = "categorized"
    /\ UNCHANGED <<cache, tie_order, json_file, args, store, csv, giro_dfs, visa_dfs, sorted_df, override_df, combined_df, last_edit>>

NextCategorize == CallCategorize

SpecCategorize == InitCategorize /\ [][NextCategorize]_vars

-----------------------------------------------------------------------------
(* Claims about the categorizer, checked under SpecCategorize.             *)

\* an IBAN rule hits the row: the batch is a checking-account batch with an
\* IBAN column and the row's IBAN equals a rule key, letter case ignored
IbanRuleHits(row, is_visa, cfg) ==
    /\ ~is_visa
    /\ "IBAN" \in DOMAIN row
    /\ row.IBAN # NULL
    /\ \E j \in 1..Len(cfg.iban_rules) : Upper(row.IBAN) = Upper(cfg.iban_rules[j][1])

\* the positions of the categories with a non-empty keyword list one of whose
\* keywords is contained in the match text
MatchingRules(row, is_visa, cfg) ==
    {j \in 1..Len(cfg.rules) :
        /\ cfg.rules[j][2] # <<>>
        /\ \E k \in 1..Len(cfg.rules[j][2]) :
              Contains(MatchText(row, is_visa), Lower(cfg.rules[j][2][k]))}

FirstDeclaredMatch(row, is_visa, cfg) ==
    LET hits == MatchingRules(row, is_visa, cfg)
    IN  IF hits = {} THEN Sonstiges
        ELSE cfg.rules[CHOOSE j \in hits : \A h \in hits : j <= h][1]

\* C1 (first match wins): every row that no IBAN rule hits gets the first-declared
\* category with a non-empty keyword list one of whose keywords is contained in
\* the match text, and "Sonstiges" when there is none, whatever the categories
\* are named.
C1_FirstMatchWins ==
    pc = "categorized" =>
        \A i \in 1..Len(args.df) :
            ~IbanRuleHits(args.df[i], args.is_visa, args.categories_config) =>
                ret[i] = FirstDeclaredMatch(args.df[i], args.is_visa, args.categories_config)

\* C2 (IBAN override supremacy): in a checking-account batch with an IBAN column
\* every row whose IBAN equals an iban_rules key, letter case ignored, gets that
\* rule's category, whatever the keyword rules gave it.
C2_IbanSupremacy ==
    (pc = "categorized" /\ ~args.is_visa) =>
        \A i \in 1..Len(args.df) :
            ("IBAN" \in DOMAIN args.df[i] /\ args.df[i].IBAN # NULL) =>
                \A j \in 1..Len(args.categories_config.iban_rules) :
                    Upper(args.df[i].IBAN) = Upper(args.categories_config.iban_rules[j][1])
                        => ret[i] = args.categories_config.iban_rules[j][2]

\* a row the keyword rules give one category and an IBAN rule, matching a
\* lower-case IBAN, another
C2_Witness ==
    /\ pc = "categorized"
    /\ ~args.is_visa
    /\ Len(args.df) = 1
    /\ IbanRuleHits(args.df[1], FALSE, args.categories_config)
    /\ args.df[1].IBAN # Upper(args.df[1].IBAN)
    /\ MatchingRules(args.df[1], FALSE, args.categories_config) # {}
    /\ FirstDeclaredMatch(args.df[1], FALSE, args.categories_config) \notin {Sonstiges, ret[1]}
    /\ ret[1] = "Gehalt"

-----------------------------------------------------------------------------
(* Claims about the key functions, checked under SpecKeys.                 *)

\* the three columns the keys are documented to be functions of
KeyCols == {"Datum", "Beschreibung", "Betrag"}

SameKeyFields(r1, r2) ==
    \A c \in KeyCols :
        /\ (c \in DOMAIN r1) <=> (c \in DOMAIN r2)
        /\ c \in DOMAIN r1 => r1[c] = r2[c]

\* two description texts that agree on their first TruncLen characters and differ
DifferOnlyBeyondCut(s1, s2) == s1 # s2 /\ Prefix(s1, TruncLen) = Prefix(s2, TruncLen)

DivergingPair ==
    /\ "Datum" \in DOMAIN args.a
    /\ HasText(args.a)
    /\ HasText(args.b)
    /\ DifferOnlyBeyondCut(args.a.Beschreibung, args.b.Beschreibung)

\* C7 (key divergence): two rows with equal date and amount whose descriptions
\* agree on the first 30 characters and differ only after them get the same
\* legacy key and different current keys.
C7_KeyDivergence ==
    (KeysReturned /\ DivergingPair) =>
        /\ ret.legacy[1] = ret.legacy[2]
        /\ ret.key[1] # ret.key[2]

C7_Witness ==
    /\ KeysReturned
    /\ DivergingPair
    /\ Len(args.a.Beschreibung) > TruncLen
    /\ Len(args.b.Beschreibung) > TruncLen

\* C8 (key determinism): two rows equal on date, description and amount get
\* equal current keys and equal legacy keys, whatever their account and category.
C8_KeyDeterminism ==
    (KeysReturned /\ SameKeyFields(args.a, args.b)) =>
        /\ ret.key[1] = ret.key[2]
        /\ ret.legacy[1] = ret.legacy[2]

C8_Witness ==
    /\ KeysReturned
    /\ SameKeyFields(args.a, args.b)
    /\ KeyCols \subseteq DOMAIN args.a
    /\ args.a.Konto # args.b.Konto
    /\ args.a.Kategorie # args.b.Kategorie

Unknown == <<"u", "n", "k", "n", "o", "w", "n">>

\* the segments the missing-value rule of C9 prescribes
FallbackDate(row) ==
    IF "Datum" \notin DOMAIN row \/ row.Datum = NaT THEN Unknown ELSE Strftime(row.Datum)
FallbackDesc(row) ==
    IF "Beschreibung" \notin DOMAIN row \/ row.Beschreibung = NULL THEN <<>>
    ELSE row.Beschreibung
FallbackAmount(row) ==
    IF "Betrag" \notin DOMAIN row THEN <<"0", ".", "0", "0">> ELSE Format2f(row.Betrag)

FallbackKeys(row, key, legacy) ==
    /\ key = FallbackDate(row) \o <<"_">> \o DescHash(FallbackDesc(row))
                 \o <<"_">> \o FallbackAmount(row)
    /\ legacy = FallbackDate(row) \o <<"_">>
                 \o ReplaceChar(Prefix(FallbackDesc(row), TruncLen), "/", "-")
                 \o <<"_">> \o FallbackAmount(row)

\* C9 (missing-value fallbacks): a missing or null date gives the date segment
\* "unknown", a missing or null description counts as the empty string, a
\* missing amount gives "0.00", and no such row raises an error.
C9_MissingValueFallbacks ==
    KeysReturned =>
        /\ FallbackKeys(args.a, ret.key[1], ret.legacy[1])
        /\ FallbackKeys(args.b, ret.key[2], ret.legacy[2])

\* the legacy key the claim C10 describes, built position by position
LegacyForm(row, legacy) ==
    LET s == row.Beschreibung
        n == IF Len(s) < TruncLen THEN Len(s) ELSE TruncLen
        d == [i \in 1..n |-> IF s[i] = "/" THEN "-" ELSE s[i]]
    IN  /\ legacy = DateStr(row) \o <<"_">> \o d \o <<"_">> \o AmountStr(row)
        /\ Len(legacy) - Len(DateStr(row)) - Len(AmountStr(row)) - 2 <= TruncLen
        /\ \A i \in 1..Len(legacy) : legacy[i] # "/"

\* C10 (legacy key form): the legacy key is date + "_" + d + "_" + amount with d
\* the first 30 characters of the description, every "/" replaced by "-"; d has
\* at most 30 characters and the key holds no "/".
C10_LegacyKeyForm ==
    KeysReturned =>
        /\ ("Datum" \in DOMAIN args.a /\ HasText(args.a)) => LegacyForm(args.a, ret.legacy[1])
        /\ ("Datum" \in DOMAIN args.b /\ HasText(args.b)) => LegacyForm(args.b, ret.legacy[2])

C10_Witness ==
    /\ KeysReturned
    /\ "Datum" \in DOMAIN args.a
    /\ HasText(args.a)
    /\ Len(args.a.Beschreibung) > TruncLen
    /\ args.a.Beschreibung[TruncLen] = "/"
    /\ args.a.Beschreibung[TruncLen + 1] = "/"

-----------------------------------------------------------------------------
(* The application: app.py's script run (load, assemble, render) and the   *)
(* transaction editor.                                                     *)

\* dict.get(k, default) on a mapping
Lookup(mapping, k, default) ==
    IF k \in Keys(mapping)
    THEN mapping[CHOOSE i \in 1..Len(mapping) : mapping[i][1] = k][2]
    ELSE default

\* mapping[k] = v : an existing key keeps its place, a new key goes last
SetItem(mapping, k, v) ==
    IF k \in Keys(mapping)
    THEN [i \in 1..Len(mapping) |-> IF mapping[i][1] = k THEN <<k, v>> ELSE mapping[i]]
    ELSE Append(mapping, <<k, v>>)

\* the printable ASCII characters in code-point order, from the blank (32) on
\* (the grave accent, which no text of the model holds, by a name)
Ascii ==
    <<" ", "!", "\"", "#", "$", "%", "&", "'", "(", ")", "*", "+", ",", "-", ".", "/",
      "0", "1", "2", "3", "4", "5", "6", "7", "8", "9", ":", ";", "<", "=", ">", "?", "@",
      "A", "B", "C", "D", "E", "F", "G", "H", "I", "J", "K", "L", "M", "N", "O", "P", "Q",
      "R", "S", "T", "U", "V", "W", "X", "Y", "Z", "[", "\\", "]", "^", "_", "<grave>",
      "a", "b", "c", "d", "e", "f", "g", "h", "i", "j", "k", "l", "m", "n", "o", "p", "q",
      "r", "s", "t", "u", "v", "w", "x", "y", "z", "{", "|", "}", "~">>

\* ord(c); an element that is no ASCII character (the digest marker) sorts last
CodePoint(c) ==
    IF \E i \in 1..Len(Ascii) : Ascii[i] = c
    THEN 31 + (CHOOSE i \in 1..Len(Ascii) : Ascii[i] = c)
    ELSE IF c = "\t" THEN 9
    ELSE IF c = "\n" THEN 10
    ELSE IF c = "\r" THEN 13
    ELSE 128

RECURSIVE FirstDifference(_, _, _)
\* the first position from i on where the two texts differ, 0 if one ends first
FirstDifference(a, b, i) ==
    IF i > Len(a) \/ i > Len(b) THEN 0
    ELSE IF a[i] # b[i] THEN i
    ELSE FirstDifference(a, b, i + 1)

\* Python's  a < b  on str: by code point at the first difference, a proper
\* prefix first
StrLess(a, b) ==
    LET i == FirstDifference(a, b, 1)
    IN  IF i = 0 THEN Len(a) < Len(b) ELSE CodePoint(a[i]) < CodePoint(b[i])

RECURSIVE InsertByKey(_, _)
InsertByKey(sorted, pair) ==
    IF sorted = <<>> THEN <<pair>>
    ELSE IF StrLess(pair[1], Head(sorted)[1]) THEN <<pair>> \o sorted
    ELSE <<Head(sorted)>> \o InsertByKey(Tail(sorted), pair)

RECURSIVE SortByKey(_)
\* the items of a mapping in the order of their keys
SortByKey(mapping) ==
    IF mapping = <<>> THEN <<>>
    ELSE InsertByKey(SortByKey(Tail(mapping)), Head(mapping))

\* json.dumps(mapping, sort_keys=...): the JSON text of an object is the
\* sequence of its members as written, in the mapping's order or in key order
json_dumps(mapping, sort_keys) ==
    LET items == IF sort_keys THEN SortByKey(mapping) ELSE mapping
    IN  [i \in 1..Len(items) |-> [key |-> items[i][1], value |-> items[i][2]]]

\* json.loads(text): a dict with the members in the order of the text
json_loads(text) == [i \in 1..Len(text) |-> <<text[i].key, text[i].value>>]

\* hashable_config(config) (config.py lines 76-85)
hashable_config(config) == json_dumps(config, TRUE)

\* the document load_categories returns when there is no file (config.py line 29)
DefaultDocument ==
    [config |-> NoCols, rules |-> <<>>, iban_rules |-> <<>>, overrides |-> <<>>, clusters |-> <<>>]

\* a save that writes the members of every section in key order
SaveCategoriesSorted(categories) ==
    [exists |-> TRUE,
     text |-> [name \in DOMAIN categories |->
                  IF name = "config" THEN categories[name]
                  ELSE IF name = "rules" THEN json_dumps(categories[name], FALSE)
                  ELSE json_dumps(categories[name], TRUE)]]

\* save_categories(categories) (config.py lines 32-43): json.dump writes every
\* section with its members in the mapping's order (the config section, whose
\* members the code looks up by name, is written as it is)
save_categories(categories) ==
    [exists |-> TRUE,
     text |-> [name \in DOMAIN categories |->
                  IF name = "config" THEN categories[name]
                  ELSE json_dumps(categories[name], FALSE)]]

\* load_categories() (config.py lines 14-29) on the file as it is on disk
load_categories(file) ==
    IF ~file.exists THEN DefaultDocument
    ELSE [name \in DOMAIN file.text |->
             IF name = "config" THEN file.text[name] ELSE json_loads(file.text[name])]

\* DEFAULT_CC_SETTLEMENT_PATTERNS (config.py line 11)
DEFAULT_CC_SETTLEMENT_PATTERNS ==
    << <<"k", "r", "e", "d", "i", "t", "k", "a", "r", "t", "e", "n",
         "a", "b", "r", "e", "c", "h", "n", "u", "n", "g">>,
       <<"a", "u", "s", "g", "l", "e", "i", "c", "h", " ",
         "k", "r", "e", "d", "i", "t", "k", "a", "r", "t", "e">> >>

\* the label settlement transactions are forced to (app.py line 115)
Kreditkarte == "Kreditkarte"

\* load_all_data (loader.py lines 127-151): every batch gets its account and the
\* categorizer's result under the store as it is on disk
LoadedGiro(rows, cfg) ==
    LET cats == categorize_transactions_vectorized(rows, FALSE, cfg)
    IN  [i \in 1..Len(rows) |-> [Konto |-> "DE1", Kategorie |-> cats[i]] @@ rows[i]]

LoadedVisa(rows, cfg) ==
    LET cats == categorize_transactions_vectorized(rows, TRUE, cfg)
    IN  [i \in 1..Len(rows) |-> [Konto |-> "Visa Kreditkarte", Kategorie |-> cats[i]] @@ rows[i]]

\* the description of a checking-account row (app.py lines 81-83)
GiroDescription(row) ==
    LET emp == Strip(FillNa(row.Zahlungsempfaenger))
        zweck == Strip(FillNa(row.Verwendungszweck))
    IN  emp \o (IF zweck # <<>> THEN <<" ", "-", " ">> \o zweck ELSE <<>>)

\* the common shape of the combined view's rows (app.py lines 79-89)
GiroTemp(row) ==
    [Datum |-> row.Datum, Betrag |-> row.Betrag, Kategorie |-> row.Kategorie,
     Konto |-> row.Konto, Beschreibung |-> GiroDescription(row)]
VisaTemp(row) ==
    [Datum |-> row.Datum, Betrag |-> row.Betrag, Kategorie |-> row.Kategorie,
     Konto |-> row.Konto, Beschreibung |-> row.Beschreibung]

\* pd.concat(all_transactions, ignore_index=True)
Concat(giro, visa) ==
    [i \in 1..Len(giro) |-> GiroTemp(giro[i])] \o [i \in 1..Len(visa) |-> VisaTemp(visa[i])]

DateOrd(d) == d[1] * 10000 + d[2] * 100 + d[3]

RECURSIVE InsertDesc(_, _, _)
\* row goes after every row of the sorted sequence whose date is later, and
\* after or before those of its own date as the order of ties says
InsertDesc(sorted, row, ties) ==
    IF sorted = <<>> THEN <<row>>
    ELSE IF \/ DateOrd(Head(sorted).Datum) > DateOrd(row.Datum)
            \/ (DateOrd(Head(sorted).Datum) = DateOrd(row.Datum) /\ ties = "kept")
         THEN <<Head(sorted)>> \o InsertDesc(Tail(sorted), row, ties)
         ELSE <<row>> \o sorted

RECURSIVE SortByDatumDescTies(_, _)
SortByDatumDescTies(rows, ties) ==
    IF rows = <<>> THEN <<>>
    ELSE InsertDesc(SortByDatumDescTies(SubSeq(rows, 1, Len(rows) - 1), ties), rows[Len(rows)], ties)

\* sort_values("Datum", ascending=False) (app.py line 92).  The default
\* kind="quicksort" is not a stable sort: where it leaves rows of one date
\* depends on the build and on the size of the frame, which tie_order stands for
SortByDatumDesc(rows) == SortByDatumDescTies(rows, tie_order)

\* an override lookup that asks the legacy key first
OverrideCategoryLegacyFirst(row, overrides) ==
    Lookup(overrides, get_legacy_override_key(row),
           Lookup(overrides, get_override_key(row), row.Kategorie))

\* a category that is null or empty
NoCategory == ""

\* an override lookup whose inner get has no default: a miss yields None
OverrideCategoryNoDefault(row, overrides) ==
    Lookup(overrides, get_override_key(row),
           Lookup(overrides, get_legacy_override_key(row), NoCategory))

\* an override lookup that knows only the current key
OverrideCategoryNoLegacy(row, overrides) ==
    Lookup(overrides, get_override_key(row), row.Kategorie)

\* cat_config_overrides.get(key, cat_config_overrides.get(legacy_key, Kategorie))
\* (app.py lines 100-102)
OverrideCategory(row, overrides) ==
    Lookup(overrides, get_override_key(row),
           Lookup(overrides, get_legacy_override_key(row), row.Kategorie))

\* an override step that gives an override to the first row of its key only
ApplyOverridesFirstRow(rows, overrides) ==
    IF overrides = <<>> THEN rows
    ELSE [i \in 1..Len(rows) |->
            IF \E j \in 1..(i - 1) : get_override_key(rows[j]) = get_override_key(rows[i])
            THEN rows[i]
            ELSE [rows[i] EXCEPT !.Kategorie = OverrideCategory(rows[i], overrides)]]

\* the override step (app.py lines 95-105)
ApplyOverrides(rows, overrides) ==
    IF overrides = <<>> THEN rows
    ELSE [i \in 1..Len(rows) |->
            [rows[i] EXCEPT !.Kategorie = OverrideCategory(rows[i], overrides)]]

\* config.get("cc_settlement_patterns", DEFAULT_CC_SETTLEMENT_PATTERNS)
SettlementPatterns(config) ==
    IF "cc_settlement_patterns" \in DOMAIN config THEN config.cc_settlement_patterns
    ELSE DEFAULT_CC_SETTLEMENT_PATTERNS

\* any(pattern in x for pattern in cc_settlement_patterns), x the lower-cased
\* description (app.py lines 110-114)
IsSettlement(desc, patterns) ==
    \E p \in 1..Len(patterns) : Contains(Lower(desc), patterns[p])

\* a reclassification that spares rows with a category other than the default
ReclassifyOnlyDefault(rows, patterns) ==
    [i \in 1..Len(rows) |->
        IF IsSettlement(rows[i].Beschreibung, patterns) /\ rows[i].Kategorie = Sonstiges
        THEN [rows[i] EXCEPT !.Kategorie = Kreditkarte]
        ELSE rows[i]]

\* a reclassification that looks for the patterns in the description as written
ReclassifyCaseSensitive(rows, patterns) ==
    [i \in 1..Len(rows) |->
        IF \E p \in 1..Len(patterns) : Contains(rows[i].Beschreibung, patterns[p])
        THEN [rows[i] EXCEPT !.Kategorie = Kreditkarte]
        ELSE rows[i]]

\* combined_df.loc[cc_settlement_mask, "Kategorie"] = "Kreditkarte" (line 115)
Reclassify(rows, patterns) ==
    [i \in 1..Len(rows) |->
        IF IsSettlement(rows[i].Beschreibung, patterns)
        THEN [rows[i] EXCEPT !.Kategorie = Kreditkarte]
        ELSE rows[i]]

\* `pattern in x` raises TypeError when x is a missing description (a float)
SettlementRaises(rows, patterns) ==
    patterns # <<>> /\ \E i \in 1..Len(rows) : rows[i].Beschreibung = NULL

\* the categories the editor's dropdown offers (app.py line 400)
all_cats(cfg) == Keys(cfg.rules) \cup {"Umbuchungen", "Gehalt", Sonstiges}

\* the key the editor saves a change under, were it the legacy key
EditorKeyLegacy(row) == get_legacy_override_key(row)

\* the key the editor saves a change under (app.py lines 403 and 447)
EditorKey(row) == get_override_key(row)

\* load_all_data, then load_categories (app.py lines 150-153)
LoadAllData ==
    /\ pc = "load"
    /\ giro_dfs' = LoadedGiro(csv.giro, store)
    /\ visa_dfs' = LoadedVisa(csv.visa, store)
    /\ pc' = "prepare"
    /\ UNCHANGED <<cache, tie_order, json_file, args, ret, store, csv, sorted_df, override_df, combined_df, last_edit>>

\* combined_df["Beschreibung_cluster"] = apply_description_clusters(...)
\* (app.py lines 118-121)
WithClusters(rows, cluster_rules) ==
    LET labels == apply_description_clusters([i \in 1..Len(rows) |-> rows[i].Beschreibung],
                                             cluster_rules)
    IN  [i \in 1..Len(rows) |-> [Beschreibung_cluster |-> labels[i]] @@ rows[i]]

\* prepare_combined_data as the script calls it (app.py lines 70-127 and
\* 166-172, without the derived columns Jahr and MonthNum): the overrides and
\* clusters sections arrive as hashable_config wrote them and are read back
\* with json.loads (the config section, a JSON object whose one member the
\* code looks up by name, is read as it is); concatenate, sort, apply the
\* overrides, reclassify settlements, attach cluster labels; a missing
\* description raises in the settlement step and no view is returned
PrepareCombinedData ==
    /\ pc = "prepare"
    /\ LET overrides_hash == hashable_config(Section(store, "overrides"))
           cluster_rules_hash == hashable_config(Section(store, "clusters"))
           patterns == SettlementPatterns(Section(store, "config"))
           sorted == SortByDatumDesc(Concat(giro_dfs, visa_dfs))
           overridden == ApplyOverrides(sorted, json_loads(overrides_hash))
       IN  /\ sorted_df' = sorted
           /\ override_df' = overridden
           /\ IF SettlementRaises(overridden, patterns)
              THEN /\ pc' = "error"
                   /\ UNCHANGED combined_df
              ELSE /\ pc' = "render"
                   /\ combined_df' = WithClusters(Reclassify(overridden, patterns),
                                                  json_loads(cluster_rules_hash))
    /\ UNCHANGED <<cache, tie_order, json_file, args, ret, store, csv, giro_dfs, visa_dfs, last_edit>>

\* the categories the user picks in the model
EditCats == {"A", "Umbuchungen"}

\* the transaction editor (app.py lines 398-450): the user gives row i of the
\* table another category; the change is saved under the row's key and the
\* script reruns
EditCategory ==
    /\ pc = "render"
    /\ \E i \in 1..Len(combined_df), new_cat \in all_cats(store) \cap EditCats :
          /\ new_cat # combined_df[i].Kategorie
          /\ store' = [store EXCEPT
                         !.overrides = SetItem(@, EditorKey(combined_df[i]), new_cat)]
          /\ last_edit' = << <<EditorKey(combined_df[i]), new_cat>> >>
    /\ pc' = "load"
    /\ UNCHANGED <<cache, tie_order, json_file, args, ret, csv, giro_dfs, visa_dfs, sorted_df, override_df, combined_df>>

-----------------------------------------------------------------------------
(* Inputs of the application specifications.                               *)

D1 == <<2024, 1, 15>>
D2 == <<2024, 2, 1>>
\* a card description that holds a default settlement pattern
Abrechnung ==
    <<"K", "r", "e", "d", "i", "t", "k", "a", "r", "t", "e", "n",
      "a", "b", "r", "e", "c", "h", "n", "u", "n", "g">>

GiroCsvRows ==
    {[Datum |-> D1, Betrag |-> <<-4599>>, Zahlungsempfaenger |-> e,
      Verwendungszweck |-> z, IBAN |-> iban] :
        e \in {<<"K">>, <<"x">>}, z \in {NULL, <<"a">>}, iban \in {NULL, <<"d", "e", "1">>}}

VisaCsvRows ==
    {[Datum |-> d, Betrag |-> <<-4599>>, Beschreibung |-> s] :
        d \in {D1, D2}, s \in {NULL, <<"K">>, Abrechnung}}

\* at most one row
UpToOne(S) == {<<>>} \cup {<<r>> : r \in S}

ConfigSections == {NoCols, [cc_settlement_patterns |-> << <<"k">> >>]}

\* overrides a store can hold for a row before any edit of this session: none,
\* one saved before the key scheme changed, one under the current key, or both
OverrideChoices == {"none", "legacy", "current", "both"}

RowOverrides(row, choice) ==
    (IF choice \in {"legacy", "both"}
     THEN << <<get_legacy_override_key(row), "Umbuchungen">> >> ELSE <<>>)
    \o (IF choice \in {"current", "both"}
        THEN << <<get_override_key(row), "B">> >> ELSE <<>>)

RECURSIVE Update(_, _)
\* dict.update with the pairs of a second mapping
Update(mapping, pairs) ==
    IF pairs = <<>> THEN mapping
    ELSE Update(SetItem(mapping, Head(pairs)[1], Head(pairs)[2]), Tail(pairs))

RECURSIVE OverridesFor(_, _)
OverridesFor(rows, choices) ==
    IF rows = <<>> THEN <<>>
    ELSE Update(OverridesFor(SubSeq(rows, 1, Len(rows) - 1), choices),
                RowOverrides(rows[Len(rows)], choices[Len(rows)]))

\* the overrides sections for the transactions of the given batches
OverrideSections(giro, visa) ==
    LET rows == Concat(giro, visa)
    IN  {OverridesFor(rows, ch) : ch \in [1..Len(rows) -> OverrideChoices]}

AppRuleSections == RuleSections({"A", "B"}, {<< <<"k">> >>}, MaxRules)

\* clusters sections: none, two clusters declared against the order of their
\* labels that share a pattern, two clusters declared in the order of their labels
AppClusterSections ==
    {<<>>,
     << <<(<<"M">>), << <<"k">> >> >>, <<(<<"L">>), << <<"k">> >> >> >>,
     << <<(<<"L">>), << <<"k">> >> >>, <<(<<"M">>), << <<"x">> >> >> >>}

\* what a sort that is not stable can do with the rows: nothing to choose
\* unless two rows share a date
TieOrders(rows) ==
    IF \E i, j \in 1..Len(rows) : i # j /\ rows[i].Datum = rows[j].Datum
    THEN {"kept", "reversed"}
    ELSE {"kept"}
AppIbanSections == {<<>>, << <<DE1, "Gehalt">> >>}

Init ==
    /\ csv \in [giro : UpToOne(GiroCsvRows), visa : UpToOne(VisaCsvRows)]
    /\ \E rules \in AppRuleSections, iban_rules \in AppIbanSections, config \in ConfigSections :
         \E overrides \in OverrideSections(
                              LoadedGiro(csv.giro, [rules |-> rules, iban_rules |-> iban_rules]),
                              LoadedVisa(csv.visa, [rules |-> rules, iban_rules |-> iban_rules])) :
            store = [rules |-> rules, iban_rules |-> iban_rules,
                     overrides |-> overrides, config |-> config,
                     clusters |-> << <<(<<"M">>), << <<"k">> >> >>, <<(<<"L">>), << <<"k">> >> >> >>]
    /\ args = <<>>
    /\ ret = <<>>
    /\ giro_dfs = <<>>
    /\ visa_dfs = <<>>
    /\ sorted_df = <<>>
    /\ override_df = <<>>
    /\ combined_df = <<>>
    /\ last_edit = <<>>
    /\ tie_order \in TieOrders(csv.giro \o csv.visa)
    /\ cache = NoCache
    /\ json_file = NoFile
    /\ pc = "load"

Next == LoadAllData \/ PrepareCombinedData \/ EditCategory

Spec == Init /\ [][Next]_vars

-----------------------------------------------------------------------------
(* Specification SpecAssemble: prepare_combined_data applied to batches    *)
(* whose rows carry any category, under a store drawn from bounded sets.   *)

\* categories the batches arrive with
GivenCats == {"A", Sonstiges}

InitAssemble ==
    /\ giro_dfs \in UpToOne({[Konto |-> "DE1", Kategorie |-> c] @@ r :
                                r \in GiroCsvRows, c \in GivenCats})
    /\ visa_dfs \in UpToOne({[Konto |-> "Visa Kreditkarte", Kategorie |-> c] @@ r :
                                r \in VisaCsvRows, c \in GivenCats})
    /\ \E overrides \in OverrideSections(giro_dfs, visa_dfs), config \in ConfigSections,
          clusters \in AppClusterSections :
          store = [rules |-> <<>>, iban_rules |-> <<>>,
                   overrides |-> overrides, config |-> config, clusters |-> clusters]
    /\ csv = IdleCsv
    /\ args = <<>>
    /\ ret = <<>>
    /\ sorted_df = <<>>
    /\ override_df = <<>>
    /\ combined_df = <<>>
    /\ last_edit = <<>>
    /\ tie_order \in TieOrders(giro_dfs \o visa_dfs)
    /\ cache = NoCache
    /\ json_file = NoFile
    /\ pc = "prepare"

NextAssemble == PrepareCombinedData

SpecAssemble == InitAssemble /\ [][NextAssemble]_vars

-----------------------------------------------------------------------------
(* Claims about the combined view.                                         *)

\* prepare_combined_data has run past its override step
Assembled == pc \in {"render", "error"}

\* the row is the same but for its category
SameButCategory(r1, r2) ==
    \A c \in {"Datum", "Betrag", "Konto", "Beschreibung"} : r1[c] = r2[c]

\* the category the two-step lookup of C3 prescribes for a row
TwoStepLookup(row, overrides) ==
    LET current == get_override_key(row)
        legacy == get_legacy_override_key(row)
        hit(k) == {j \in 1..Len(overrides) : overrides[j][1] = k}
    IN  IF hit(current) # {} THEN overrides[CHOOSE j \in hit(current) : TRUE][2]
        ELSE IF hit(legacy) # {} THEN overrides[CHOOSE j \in hit(legacy) : TRUE][2]
        ELSE row.Kategorie

\* C3 (override lookup): after the override step every transaction has the
\* category overrides[current key] if that key is present, else
\* overrides[legacy key] if present, else the category it came with; nothing
\* else of the row changes and the rules are not consulted.
C3_OverrideLookup ==
    Assembled =>
        /\ Len(override_df) = Len(sorted_df)
        /\ \A i \in 1..Len(sorted_df) :
              /\ SameButCategory(override_df[i], sorted_df[i])
              /\ override_df[i].Kategorie = TwoStepLookup(sorted_df[i], store.overrides)

\* a view with a row that has both forms of override, a row that has only a
\* legacy override, or a row that has none
C3_Witness ==
    /\ Assembled
    /\ \E i \in 1..Len(sorted_df) :
          /\ get_override_key(sorted_df[i]) \in Keys(store.overrides)
          /\ get_legacy_override_key(sorted_df[i]) \in Keys(store.overrides)
          /\ override_df[i].Kategorie = "B"
          /\ sorted_df[i].Kategorie = "A"
    /\ \E i \in 1..Len(sorted_df) :
          /\ get_override_key(sorted_df[i]) \notin Keys(store.overrides)
          /\ get_legacy_override_key(sorted_df[i]) \notin Keys(store.overrides)
          /\ override_df[i].Kategorie = "A"

\* C5 (settlement precedence): in every combined view returned each transaction
\* whose lower-cased description contains a configured settlement pattern has
\* the category "Kreditkarte", also over a manual override; every other
\* transaction keeps the category it had after the override step.
C5_SettlementPrecedence ==
    pc = "render" =>
        /\ Len(combined_df) = Len(override_df)
        /\ \A i \in 1..Len(combined_df) :
              LET patterns == SettlementPatterns(store.config)
                  text == Lower(combined_df[i].Beschreibung)
              IN  IF \E p \in 1..Len(patterns) : Contains(text, patterns[p])
                  THEN combined_df[i].Kategorie = Kreditkarte
                  ELSE combined_df[i].Kategorie = override_df[i].Kategorie

\* a manually overridden settlement transaction next to one that is none
C5_Witness ==
    /\ pc = "render"
    /\ \E i \in 1..Len(combined_df) :
          /\ get_override_key(combined_df[i]) \in Keys(store.overrides)
          /\ override_df[i].Kategorie = "B"
          /\ combined_df[i].Kategorie = Kreditkarte
    /\ \E i \in 1..Len(combined_df) :
          /\ ~IsSettlement(combined_df[i].Beschreibung, SettlementPatterns(store.config))
          /\ combined_df[i].Kategorie = "Umbuchungen"

-----------------------------------------------------------------------------
(* Claims about the editor and the category labels, checked under Spec.    *)

Values(mapping) == {mapping[i][2] : i \in 1..Len(mapping)}

\* the step is a save of the transaction editor
EditStep == pc = "render" /\ pc' = "load"

\* the step returns the first combined view after a save of the editor
ViewAfterEditStep == pc = "prepare" /\ pc' = "render" /\ last_edit # <<>>

\* the save writes new_cat under the current key of an edited row and leaves
\* every other entry, the legacy-form ones included, as it was
WritesOneCurrentEntry ==
    \E i \in 1..Len(combined_df) :
        LET k == get_override_key(combined_df[i])
            before == store.overrides
            after == store'.overrides
        IN  /\ k \in Keys(after)
            /\ Lookup(after, k, NoCategory) # combined_df[i].Kategorie
            /\ Lookup(after, k, NoCategory) \in all_cats(store)
            /\ last_edit' = << <<k, Lookup(after, k, NoCategory)>> >>
            /\ Keys(after) = Keys(before) \cup {k}
            /\ Cardinality(Keys(after)) = Len(after)
            /\ \A k2 \in Keys(before) \ {k} :
                  Lookup(after, k2, NoCategory) = Lookup(before, k2, NoCategory)
            /\ \A j \in 1..Len(combined_df) :
                  LET old == get_legacy_override_key(combined_df[j])
                  IN  /\ old # k
                      /\ old \in Keys(after) <=> old \in Keys(before)

\* a row of the returned view is a settlement transaction
SettlementRow(row) == IsSettlement(row.Beschreibung, SettlementPatterns(store.config))

\* in the view being returned every row with the edited key shows what
\* shown(row) says, every other row is as in the view before, and a row with
\* only a legacy-form override shows that override (or the settlement label)
NextViewShows(shown(_)) ==
    /\ Len(combined_df') = Len(combined_df)
    /\ \A i \in 1..Len(combined_df') :
          LET row == combined_df'[i]
          IN  /\ get_override_key(row) = last_edit[1][1] => row.Kategorie = shown(row)
              /\ get_override_key(row) # last_edit[1][1] => row = combined_df[i]
              /\ (/\ get_override_key(row) \notin Keys(store.overrides)
                  /\ get_legacy_override_key(row) \in Keys(store.overrides)
                  /\ ~SettlementRow(row))
                 => row.Kategorie = Lookup(store.overrides, get_legacy_override_key(row), NoCategory)

NewCategory(row) == last_edit[1][2]
NewCategoryUnlessSettlement(row) == IF SettlementRow(row) THEN Kreditkarte ELSE last_edit[1][2]

Loaded == pc \in {"prepare", "render", "error"}

-----------------------------------------------------------------------------
(* Specification SpecClusters: apply_description_clusters applied to one   *)
(* description under a cluster mapping drawn from bounded sets.            *)

\* largest number of clusters in a cluster mapping
MaxClusters == 2

\* cluster labels: plain, with a blank to trim, blank
ClusterLabels == {<<"L">>, <<"M", " ">>, <<" ">>}

\* pattern lists: none, an empty pattern, a blank pattern, literals, patterns
\* with the wildcard in the middle and at either end, a pattern to trim,
\* a pattern with a character re gives a meaning to, two patterns
PatternLists ==
    {<<>>, << <<>> >>, << <<" ">> >>, << <<"a">> >>, << <<"a", "*", "k">> >>,
     << <<"a", "*">> >>, << <<"*", "a">> >>, << <<"k", " ">> >>, << <<".">> >>,
     << <<"x">>, <<"K">> >>}

ClusterDescs ==
    {NULL, <<>>, <<"a">>, <<"k">>, <<"k", "a">>, <<"A", "x", "k">>, <<"a", "\n", "k">>,
     <<"a", ".", "k">>, <<"k", " ", "x">>}

\* the cluster mappings with at most n clusters
ClusterSections(n) ==
    {r \in BoundedSeq({<<l, ps>> : l \in ClusterLabels, ps \in PatternLists}, n) : DistinctKeys(r)}

InitClusters ==
    /\ \E d \in ClusterDescs, cluster_rules \in ClusterSections(MaxClusters) :
          args = [descriptions |-> <<d>>, cluster_rules |-> cluster_rules]
    /\ ret = <<>>
    /\ store = IdleStore
    /\ csv = IdleCsv
    /\ giro_dfs = <<>>
    /\ visa_dfs = <<>>
    /\ sorted_df = <<>>
    /\ override_df = <<>>
    /\ combined_df = <<>>
    /\ last_edit = <<>>
    /\ tie_order = "kept"
    /\ cache = NoCache
    /\ json_file = NoFile
    /\ pc = "cluster"

CallApplyClusters ==
    /\ pc = "cluster"
    /\ ret' = apply_description_clusters(args.descriptions, args.cluster_rules)
    /\ pc' = "clustered"
    /\ UNCHANGED <<cache, tie_order, json_file, args, store, csv, giro_dfs, visa_dfs, sorted_df, override_df, combined_df, last_edit>>

NextClusters == CallApplyClusters

SpecClusters == InitClusters /\ [][NextClusters]_vars

-----------------------------------------------------------------------------
(* Claims about the description clusters, checked under SpecClusters.      *)

\* the cluster is not skipped and one of its patterns is found in the text
ClusterHits(cluster, text) ==
    /\ Strip(cluster[1]) # <<>>
    /\ \E k \in 1..Len(cluster[2]) :
          /\ Strip(cluster[2][k]) # <<>>
          /\ Search(CompilePattern(Strip(cluster[2][k])), text)

HittingClusters(cluster_rules, text) ==
    {j \in 1..Len(cluster_rules) : ClusterHits(cluster_rules[j], text)}

\* the trimmed label of the first cluster of the mapping that hits, else the text
FirstClusterLabel(cluster_rules, text) ==
    LET hits == HittingClusters(cluster_rules, text)
    IN  IF hits = {} THEN text
        ELSE Strip(cluster_rules[CHOOSE j \in hits : \A h \in hits : j <= h][1])

\* C11 (first cluster wins): every description that is text gets the trimmed
\* label of the first cluster, in the mapping's order, that has a non-empty
\* label and a non-empty pattern found in the description, and is returned
\* unchanged when there is no such cluster.
C11_FirstClusterWins ==
    pc = "clustered" =>
        \A i \in 1..Len(args.descriptions) :
            args.descriptions[i] # NULL =>
                ret[i] = FirstClusterLabel(args.cluster_rules, args.descriptions[i])

\* two clusters with different labels hit the description and the first one's
\* label was returned
C11_Witness ==
    /\ pc = "clustered"
    /\ args.descriptions[1] # NULL
    /\ HittingClusters(args.cluster_rules, args.descriptions[1]) = {1, 2}
    /\ Strip(args.cluster_rules[1][1]) # Strip(args.cluster_rules[2][1])
    /\ ret[1] = Strip(args.cluster_rules[1][1])

\* C13 (no null cluster label): whatever the cluster mapping, no returned
\* label is null.
C13_NeverNull ==
    pc = "clustered" => \A i \in 1..Len(ret) : ret[i] # NULL

RECURSIVE Pieces(_)
\* the literal pieces of a pattern: its parts between the wildcards
Pieces(pattern) ==
    IF pattern = <<>> THEN << <<>> >>
    ELSE IF Head(pattern) = "*" THEN << <<>> >> \o Pieces(Tail(pattern))
    ELSE LET rest == Pieces(Tail(pattern))
         IN  <<(<<Head(pattern)>> \o Head(rest))>> \o Tail(rest)

RECURSIVE InOrder(_, _)
\* the text contains the pieces in order, letter case ignored, with any
\* characters between them
InOrder(pieces, text) ==
    IF pieces = <<>> THEN TRUE
    ELSE \E s \in 0..(Len(text) - Len(Head(pieces))) :
            /\ Lower(SubSeq(text, s + 1, s + Len(Head(pieces)))) = Lower(Head(pieces))
            /\ InOrder(Tail(pieces), SubSeq(text, s + Len(Head(pieces)) + 1, Len(text)))

\* a mapping of one cluster with a label and one non-empty pattern, applied to text
OnePattern ==
    /\ Len(args.cluster_rules) = 1
    /\ Strip(args.cluster_rules[1][1]) # <<>>
    /\ Len(args.cluster_rules[1][2]) = 1
    /\ args.cluster_rules[1][2][1] # <<>>
    /\ args.descriptions[1] # NULL

\* C14 (containment match): a pattern matches a description, which then gets
\* the cluster's label, exactly when the description contains the pattern's
\* literal pieces in order, letter case ignored, with any characters where
\* the wildcard stands; every character other than the wildcard is literal.
C14_ContainmentMatch ==
    (pc = "clustered" /\ OnePattern) =>
        (ret[1] = Strip(args.cluster_rules[1][1])
            <=> InOrder(Pieces(args.cluster_rules[1][2][1]), args.descriptions[1]))

-----------------------------------------------------------------------------
(* Specification SpecKeywords: categorize_transactions_vectorized under a  *)
(* rule store with the one category "A", whose keywords hold characters    *)
(* that re gives a meaning to.                                             *)

\* largest number of keywords of the category
MaxKeywords == 2

Keywords ==
    {<<>>, <<"k">>, <<"A">>, <<".">>, <<"k", "*">>, <<"a", "|", "k">>, <<"&">>, <<"+">>,
     <<"k", " ", "a">>}

KeywordVisaRows ==
    {[Beschreibung |-> d] :
        d \in {NULL, <<>>, <<"K">>, <<"a">>, <<"x">>, <<"k", "*">>, <<"A", "|", "K">>,
               <<"x", "&">>, <<"+">>, <<"x", ".">>}}

KeywordGiroRows ==
    {[Zahlungsempfaenger |-> e, Verwendungszweck |-> z] :
        e \in {NULL, <<"K">>, <<"x", ".">>},
        z \in {NULL, <<"a">>, <<"*">>}}

InitKeywords ==
    /\ \E keywords \in BoundedSeq(Keywords, MaxKeywords), is_visa \in BOOLEAN :
         \E r \in IF is_visa THEN KeywordVisaRows ELSE KeywordGiroRows :
            args = [df |-> <<r>>, is_visa |-> is_visa,
                    categories_config |-> [rules |-> << <<"A", keywords>> >>, iban_rules |-> <<>>]]
    /\ ret = <<>>
    /\ store = IdleStore
    /\ csv = IdleCsv
    /\ giro_dfs = <<>>
    /\ visa_dfs = <<>>
    /\ sorted_df = <<>>
    /\ override_df = <<>>
    /\ combined_df = <<>>
    /\ last_edit = <<>>
    /\ tie_order = "kept"
    /\ cache = NoCache
    /\ json_file = NoFile
    /\ pc = "categorize"

NextKeywords == CallCategorize

SpecKeywords == InitKeywords /\ [][NextKeywords]_vars

-----------------------------------------------------------------------------
(* Claims about keywords and IBAN rules.                                   *)

\* a null field counts as empty
OrEmpty(v) == IF v = NULL THEN <<>> ELSE v

\* the lower-cased match text: the description of a card row, payee, a blank
\* and purpose of a checking-account row
LowerMatchText(row, is_visa) ==
    Lower(IF is_visa THEN OrEmpty(row.Beschreibung)
          ELSE OrEmpty(row.Zahlungsempfaenger) \o <<" ">> \o OrEmpty(row.Verwendungszweck))

\* some keyword, lower-cased, is a substring of the lower-cased match text
HoldsKeyword(row, is_visa, keywords) ==
    \E k \in 1..Len(keywords) : Contains(LowerMatchText(row, is_visa), Lower(keywords[k]))

\* C15 (literal keywords): the category matches a transaction, which then gets
\* it, exactly when the lower-cased match text contains the lower-cased form of
\* one of its keywords as a substring, whatever characters the keywords hold.
C15_LiteralKeywords ==
    pc = "categorized" =>
        \A i \in 1..Len(args.df) :
            ret[i] = args.categories_config.rules[1][1]
                <=> HoldsKeyword(args.df[i], args.is_visa, args.categories_config.rules[1][2])

\* a keyword with a character that re gives a meaning to was matched as text
C15_Witness ==
    /\ pc = "categorized"
    /\ Len(args.categories_config.rules[1][2]) = 1
    /\ \E c \in {".", "*", "|", "&", "+"} :
          \E j \in 1..Len(args.categories_config.rules[1][2][1]) :
              args.categories_config.rules[1][2][1][j] = c
    /\ HoldsKeyword(args.df[1], args.is_visa, args.categories_config.rules[1][2])
    /\ ret[1] = "A"

\* C16 (IBAN rules never touch card data): a card batch, and a checking-account
\* batch without an IBAN column, get for every row the category the keyword
\* rules alone give, whatever iban_rules holds.
C16_IbanRulesOnlyChecking ==
    pc = "categorized" =>
        \A i \in 1..Len(args.df) :
            (args.is_visa \/ "IBAN" \notin DOMAIN args.df[i]) =>
                ret[i] = ApplyRules(Sonstiges, args.categories_config.rules,
                                    LowerMatchText(args.df[i], args.is_visa))

\* a card row whose IBAN cell equals an iban_rules key kept its keyword category
C16_Witness ==
    /\ pc = "categorized"
    /\ args.is_visa
    /\ Len(args.df) = 1
    /\ "IBAN" \in DOMAIN args.df[1]
    /\ \E j \in 1..Len(args.categories_config.iban_rules) :
          /\ args.categories_config.iban_rules[j][1] = args.df[1].IBAN
          /\ args.categories_config.iban_rules[j][2] # ret[1]

-----------------------------------------------------------------------------
(* Claims about the cluster labels and the order of the combined view,     *)
(* checked under SpecAssemble.                                             *)

\* C12 (configured cluster order in the view): every row of the combined view
\* has as Beschreibung_cluster the label of the first cluster, in the order of
\* the clusters section of the store as declared, that has a pattern found in
\* its description, and its description when there is none.
C12_ViewClusterOrder ==
    pc = "render" =>
        \A i \in 1..Len(combined_df) :
            combined_df[i].Beschreibung_cluster
                = FirstClusterLabel(store.clusters, combined_df[i].Beschreibung)

\* the rows of the view are those of the concatenation, f telling which is which
SameRowsAs(view, concat, f) ==
    /\ \A i, j \in 1..Len(view) : f[i] = f[j] => i = j
    /\ \A i \in 1..Len(view) : SameButCategory(view[i], concat[f[i]])

\* C17 (stable sort by date, descending): the combined view holds the rows of
\* the concatenated batches, later dates first, and rows of one date in the
\* order they have in the concatenation.
C17_StableDateOrder ==
    pc = "render" =>
        LET concat == Concat(giro_dfs, visa_dfs)
        IN  /\ Len(combined_df) = Len(concat)
            /\ \E f \in [1..Len(combined_df) -> 1..Len(concat)] :
                  /\ SameRowsAs(combined_df, concat, f)
                  /\ \A i, j \in 1..Len(combined_df) :
                        i < j =>
                            \/ DateOrd(combined_df[i].Datum) > DateOrd(combined_df[j].Datum)
                            \/ /\ combined_df[i].Datum = combined_df[j].Datum
                               /\ f[i] < f[j]

-----------------------------------------------------------------------------
(* Specification SpecSettings: the settings page's "add category" and      *)
(* "add cluster" handlers, and a save followed by a load, on a rule-store   *)
(* file drawn from bounded sets.  Every handler starts from the document   *)
(* the script run loaded (app.py line 153).                                *)

\* dict.setdefault(name, {}) on the document
SetDefault(doc, name) == IF name \in DOMAIN doc THEN doc ELSE doc @@ [clusters |-> <<>>]

RECURSIVE StripLines(_)
\* [p.strip() for p in lines if p.strip()]  (app.py line 1251)
StripLines(lines) ==
    IF lines = <<>> THEN <<>>
    ELSE (IF Strip(Head(lines)) = <<>> THEN <<>> ELSE <<Strip(Head(lines))>>)
         \o StripLines(Tail(lines))

\* an "add category" that does not look whether the name is taken
AddCategoryOverwrite ==
    /\ pc = "settings"
    /\ args.op = "add_category"
    /\ LET categories_config == load_categories(json_file)
       IN  IF args.name # ""
           THEN /\ json_file' = save_categories(
                                   [categories_config EXCEPT !.rules = SetItem(@, args.name, <<>>)])
                /\ ret' = [msg |-> "success"]
           ELSE /\ ret' = [msg |-> "none"]
                /\ UNCHANGED json_file
    /\ pc' = "done"
    /\ UNCHANGED <<cache, tie_order, args, store, csv, giro_dfs, visa_dfs, sorted_df, override_df, combined_df, last_edit>>

\* the "Hinzufuegen" button of the category settings (app.py lines 1156-1163)
AddCategory ==
    /\ pc = "settings"
    /\ args.op = "add_category"
    /\ LET categories_config == load_categories(json_file)
           new_category == args.name
       IN  IF "rules" \notin DOMAIN categories_config
           THEN \* categories_config["rules"] raises KeyError
                /\ pc' = "error"
                /\ UNCHANGED <<json_file, ret>>
           ELSE /\ pc' = "done"
                /\ IF new_category # "" /\ new_category \notin Keys(categories_config.rules)
                   THEN /\ json_file' = save_categories(
                                   [categories_config EXCEPT !.rules = SetItem(@, new_category, <<>>)])
                        /\ ret' = [msg |-> "success"]
                   ELSE IF new_category \in Keys(categories_config.rules)
                   THEN /\ ret' = [msg |-> "error"]
                        /\ UNCHANGED json_file
                   ELSE /\ ret' = [msg |-> "none"]
                        /\ UNCHANGED json_file
    /\ UNCHANGED <<cache, tie_order, args, store, csv, giro_dfs, visa_dfs, sorted_df, override_df, combined_df, last_edit>>

\* the "Cluster hinzufuegen" button (app.py lines 1250-1265)
AddCluster ==
    /\ pc = "settings"
    /\ args.op = "add_cluster"
    /\ LET new_cluster_name == args.name
           patterns == StripLines(args.lines)
       IN  IF Strip(new_cluster_name) = <<>> \/ patterns = <<>>
           THEN /\ ret' = [msg |-> "error"]
                /\ UNCHANGED json_file
           ELSE LET fresh_config == SetDefault(load_categories(json_file), "clusters")
                IN  IF new_cluster_name \in Keys(fresh_config.clusters)
                    THEN /\ ret' = [msg |-> "error"]
                         /\ UNCHANGED json_file
                    ELSE /\ json_file' = save_categories(
                                   [fresh_config EXCEPT
                                       !.clusters = SetItem(@, new_cluster_name, patterns)])
                         /\ ret' = [msg |-> "success"]
    /\ pc' = "done"
    /\ UNCHANGED <<cache, tie_order, args, store, csv, giro_dfs, visa_dfs, sorted_df, override_df, combined_df, last_edit>>

\* save_categories(d)
SaveCategories ==
    /\ pc = "settings"
    /\ args.op = "round_trip"
    /\ json_file' = save_categories(args.doc)
    /\ pc' = "saved"
    /\ UNCHANGED <<cache, tie_order, args, ret, store, csv, giro_dfs, visa_dfs, sorted_df, override_df, combined_df, last_edit>>

\* load_categories() after the save
LoadCategories ==
    /\ pc = "saved"
    /\ ret' = load_categories(json_file)
    /\ pc' = "loaded"
    /\ UNCHANGED <<cache, tie_order, json_file, args, store, csv, giro_dfs, visa_dfs, sorted_df, override_df, combined_df, last_edit>>

\* rule-store documents: rules declared in and against the order of their
\* names, clusters likewise, the clusters section absent or empty
SettingsDocuments ==
    {[config |-> config, rules |-> rules, iban_rules |-> iban_rules, overrides |-> overrides]
       @@ clusters :
        config \in ConfigSections,
        rules \in {<<>>, << <<"A", << <<"k">> >> >> >>,
                   << <<"B", << <<"k">> >> >>, <<"A", <<>> >> >>},
        iban_rules \in {<<>>, << <<DE1, "Gehalt">> >>},
        overrides \in {<<>>, << <<(<<"2", "_", "x">>), "Umbuchungen">> >>},
        clusters \in {NoCols} \cup {[clusters |-> c] : c \in AppClusterSections}}

SettingsFiles == {NoFile} \cup {save_categories(d) : d \in SettingsDocuments}

ClusterNames == {<<>>, <<" ">>, <<"M">>, <<"N">>, <<"M", " ">>}
PatternLines == {<<>>, << <<" ">> >>, << <<"k">> >>, << <<" ", "k", " ">>, <<>>, <<"a", "*">> >>}

InitSettings ==
    /\ \/ /\ json_file \in SettingsFiles
          /\ \/ \E name \in {"", "A", "C"} : args = [op |-> "add_category", name |-> name]
             \/ \E name \in ClusterNames, lines \in PatternLines :
                   args = [op |-> "add_cluster", name |-> name, lines |-> lines]
       \/ /\ json_file = NoFile
          /\ \E d \in SettingsDocuments : args = [op |-> "round_trip", doc |-> d]
    /\ ret = <<>>
    /\ store = IdleStore
    /\ csv = IdleCsv
    /\ giro_dfs = <<>>
    /\ visa_dfs = <<>>
    /\ sorted_df = <<>>
    /\ override_df = <<>>
    /\ combined_df = <<>>
    /\ last_edit = <<>>
    /\ tie_order = "kept"
    /\ cache = NoCache
    /\ pc = "settings"

NextSettings == AddCategory \/ AddCluster \/ SaveCategories \/ LoadCategories

SpecSettings == InitSettings /\ [][NextSettings]_vars

-----------------------------------------------------------------------------
(* Claims about the settings handlers and the store file, checked under    *)
(* SpecSettings.                                                           *)

\* every section but the named one is in the file after the step as before it
OtherSectionsKept(before, after, section) ==
    /\ DOMAIN after \subseteq DOMAIN before \cup {section}
    /\ \A name \in DOMAIN before \ {section} : name \in DOMAIN after /\ after[name] = before[name]

\* every entry of the section but the named one is there after the step as
\* before it, at its place
OtherEntriesKept(beforeSec, afterSec, name) ==
    /\ Keys(afterSec) \subseteq Keys(beforeSec) \cup {name}
    /\ \A i \in 1..Len(beforeSec) :
          beforeSec[i][1] # name => i <= Len(afterSec) /\ afterSec[i] = beforeSec[i]

\* what an add step does to the stored document: section is the section the
\* handler adds to, value the value a new entry gets, filled whether the form
\* has what the handler requires (a name that is not blank and, for a cluster, a
\* pattern that is not blank)
AddEffect(section, value, filled) ==
    LET before == load_categories(json_file)
        after == load_categories(json_file')
        beforeSec == Section(before, section)
        afterSec == Section(after, section)
    IN  /\ args.name \in Keys(beforeSec) => ret'.msg = "error" /\ json_file' = json_file
        /\ (args.name \notin Keys(beforeSec) /\ filled) =>
              /\ ret'.msg = "success"
              /\ afterSec = Append(beforeSec, <<args.name, value>>)
        /\ OtherSectionsKept(before, after, section)
        /\ OtherEntriesKept(beforeSec, afterSec, args.name)

AddStep == pc = "settings" /\ pc' = "done"

\* C18 (adding names): an add of a category or cluster whose name exists is
\* answered with an error and leaves the stored document as it is; an add of a
\* new name sets that one entry (rules[name] = [], clusters[name] = the given
\* patterns) and leaves every other section and entry as it is.
C18_AddChangesOneEntry ==
    [][AddStep =>
          IF args.op = "add_category"
          THEN AddEffect("rules", <<>>, args.name # "")
          ELSE AddEffect("clusters", StripLines(args.lines),
                         Strip(args.name) # <<>> /\ StripLines(args.lines) # <<>>)]_vars

\* an add of an existing category name was rejected, the file left as it was
C18_Witness ==
    /\ pc = "done"
    /\ args.op = "add_category"
    /\ ret.msg = "error"
    /\ json_file.exists
    /\ Len(load_categories(json_file).rules) = 2
    /\ args.name \in Keys(load_categories(json_file).rules)

-----------------------------------------------------------------------------
(* CSV loading: finance_dashboard/data/parser.py and loader.py.            *)
(* Specification SpecLoad applies load_all_data to files of raw rows: each *)
(* file is the sequence of its data rows as pd.read_csv returns them, and  *)
(* giro_dfs and visa_dfs hold one frame per file.                          *)

RECURSIVE Split(_, _)
\* s.split(sep) for a one-character separator
Split(s, sep) ==
    IF s = <<>> THEN << <<>> >>
    ELSE LET rest == Split(Tail(s), sep)
         IN  IF Head(s) = sep THEN << <<>> >> \o rest
             ELSE <<(<<Head(s)>> \o Head(rest))>> \o Tail(rest)

Digits == {"0", "1", "2", "3", "4", "5", "6", "7", "8", "9"}
IsDigits(s) == s # <<>> /\ \A i \in 1..Len(s) : s[i] \in Digits
DigitVal(c) == CHOOSE n \in 0..9 : Digit(n) = c

RECURSIVE IntOf(_)
\* int(s) of a text of digits
IntOf(s) == IF s = <<>> THEN 0 ELSE IntOf(SubSeq(s, 1, Len(s) - 1)) * 10 + DigitVal(s[Len(s)])

IsLeap(y) == (y % 4 = 0 /\ y % 100 # 0) \/ y % 400 = 0
DaysIn(m, y) ==
    IF m = 2 THEN (IF IsLeap(y) THEN 29 ELSE 28)
    ELSE IF m \in {4, 6, 9, 11} THEN 30 ELSE 31

\* datetime.strptime(s, "%d.%m.%y") or, with long_year, "%d.%m.%Y":
\* the date, or NaT where strptime raises ValueError
strptime(s, long_year) ==
    LET parts == Split(s, ".")
    IN  IF Len(parts) # 3 THEN NaT
        ELSE IF ~(IsDigits(parts[1]) /\ Len(parts[1]) <= 2) THEN NaT
        ELSE IF ~(IsDigits(parts[2]) /\ Len(parts[2]) <= 2) THEN NaT
        ELSE IF ~(IsDigits(parts[3]) /\ Len(parts[3]) = (IF long_year THEN 4 ELSE 2)) THEN NaT
        ELSE LET d == IntOf(parts[1])
                 m == IntOf(parts[2])
                 yy == IntOf(parts[3])
                 y == IF long_year THEN yy ELSE IF yy <= 68 THEN 2000 + yy ELSE 1900 + yy
             IN  IF m \in 1..12 /\ y >= 1 /\ d >= 1 /\ d <= DaysIn(m, y) THEN <<y, m, d>> ELSE NaT

\* parse_german_date(date_str) (parser.py lines 29-47); None is NaT in the frame
parse_german_date(date_str) ==
    IF date_str = NULL THEN NaT
    ELSE LET s == Strip(date_str)
             parts == Split(s, ".")
         IN  strptime(s, Len(parts[Len(parts)]) # 2)

RECURSIVE Remove(_, _)
\* s.replace(sub, "")
Remove(s, sub) ==
    IF s = <<>> THEN <<>>
    ELSE IF Len(s) >= Len(sub) /\ SubSeq(s, 1, Len(sub)) = sub
         THEN Remove(SubSeq(s, Len(sub) + 1, Len(s)), sub)
    ELSE <<Head(s)>> \o Remove(Tail(s), sub)

\* the three characters parser.py line 20 removes (U+00E2, U+201A, U+00AC: the
\* UTF-8 bytes of the euro sign read as Windows-1252), each written by its name
CurrencyText == <<"U+00E2", "U+201A", "U+00AC">>

\* float(s) in cents for the texts float accepts among those of the model
\* (an optional sign, digits, at most one point and two decimals), NaN for
\* the ValueError of the others
FloatOf(s) ==
    LET negative == s # <<>> /\ Head(s) = "-"
        body == IF s # <<>> /\ Head(s) \in {"-", "+"} THEN Tail(s) ELSE s
        parts == Split(body, ".")
        whole == parts[1]
        frac == IF Len(parts) = 2 THEN parts[2] ELSE <<>>
    IN  IF \/ Len(parts) > 2
           \/ (whole = <<>> /\ frac = <<>>)
           \/ (whole # <<>> /\ ~IsDigits(whole))
           \/ (frac # <<>> /\ ~IsDigits(frac))
           \/ Len(frac) > 2
        THEN NaN
        ELSE LET cents == IntOf(whole) * 100
                          + (IF Len(frac) = 1 THEN IntOf(frac) * 10 ELSE IntOf(frac))
             IN  <<IF negative THEN 0 - cents ELSE cents>>

\* parse_german_number(value) (parser.py lines 8-26), in cents
parse_german_number(value) ==
    IF value = NULL \/ value = <<>> THEN <<0>>
    ELSE LET stripped == Strip(Remove(Remove(Strip(value), CurrencyText), <<" ">>))
             plain == ReplaceChar(Remove(stripped, <<".">>), ",", ".")
         IN  IF FloatOf(plain) = NaN THEN <<0>> ELSE FloatOf(plain)

\* a frame whose Datum column holds no date is not of a datetime dtype, and
\* the .dt accessor of loader.py line 49 (85) raises AttributeError on it
DtAccessorRaises(df) == df = <<>>

\* the common body of load_girokonto and load_visa (loader.py lines 41-53 and
\* 77-89) on the rows read: parse amount and date, drop the rows without a
\* date, count them
LoadFile(rows, date_col) ==
    LET parsed == [i \in 1..Len(rows) |->
                      [Betrag |-> parse_german_number(rows[i].Betrag),
                       Datum |-> parse_german_date(rows[i][date_col])] @@ rows[i]]
        kept == SelectSeq(parsed, LAMBDA r : r.Datum # NaT)
    IN  [df |-> kept, parse_failures |-> Len(parsed) - Len(kept), raised |-> DtAccessorRaises(kept)]

\* load_girokonto(filepath) (loader.py lines 15-53)
load_girokonto(rows) == LoadFile(rows, "Buchungsdatum")

\* load_visa(filepath) (loader.py lines 56-89)
load_visa(rows) == LoadFile(rows, "Belegdatum")

RECURSIVE Sum(_)
Sum(counts) == IF counts = <<>> THEN 0 ELSE Head(counts) + Sum(Tail(counts))

\* load_all_data (loader.py lines 108-151) over the files of data_dir: every
\* file is loaded, its failures are added to the total, its rows get account
\* and category; an exception of a loader leaves the function
LoadAllFiles ==
    /\ pc = "load_files"
    /\ LET cats_config == load_categories(json_file)
           giro == [f \in 1..Len(csv.giro) |-> load_girokonto(csv.giro[f])]
           visa == [f \in 1..Len(csv.visa) |-> load_visa(csv.visa[f])]
           raised == \/ \E f \in 1..Len(giro) : giro[f].raised
                     \/ \E f \in 1..Len(visa) : visa[f].raised
       IN  IF raised
           THEN /\ pc' = "error"
                /\ UNCHANGED <<giro_dfs, visa_dfs, ret>>
           ELSE /\ pc' = "files_loaded"
                /\ giro_dfs' = [f \in 1..Len(giro) |-> LoadedGiro(giro[f].df, cats_config)]
                /\ visa_dfs' = [f \in 1..Len(visa) |-> LoadedVisa(visa[f].df, cats_config)]
                /\ ret' = [failures |-> [f \in 1..Len(giro) |-> giro[f].parse_failures]
                                          \o [f \in 1..Len(visa) |-> visa[f].parse_failures],
                           parse_failures |->
                               Sum([f \in 1..Len(giro) |-> giro[f].parse_failures])
                               + Sum([f \in 1..Len(visa) |-> visa[f].parse_failures])]
    /\ UNCHANGED <<cache, tie_order, json_file, args, store, csv, sorted_df, override_df, combined_df, last_edit>>

\* most data rows in a file
MaxFileRows == 2

ShortDate == <<"1", "5", ".", "0", "1", ".", "2", "4">>
ISODate == <<"2", "0", "2", "4", "-", "0", "1", "-", "1", "5">>

\* raw dates: short year, long year with a blank to trim, no date of the
\* calendar, a date in another format, an empty cell
RawDates ==
    {ShortDate,
     <<" ", "0", "1", ".", "0", "2", ".", "2", "0", "2", "4">>,
     <<"3", "1", ".", "0", "2", ".", "2", "0", "2", "4">>,
     ISODate,
     NULL}

RawAmount == <<"-", "4", "5", ",", "9", "9">>

\* an amount float() does not take (tests/test_parser.py line 56)
BadAmount == <<"a", "b", "c">>

GiroRawRows ==
    {[Buchungsdatum |-> d, Betrag |-> a, Zahlungsempfaenger |-> <<"K">>,
      Verwendungszweck |-> NULL, IBAN |-> NULL] :
        d \in RawDates \ {ShortDate, ISODate, NULL}, a \in {RawAmount, BadAmount}}

VisaRawRows ==
    {[Belegdatum |-> d, Betrag |-> a, Beschreibung |-> <<"x">>] :
        d \in {ShortDate, ISODate, NULL}, a \in {RawAmount, BadAmount}}

InitLoad ==
    /\ csv \in [giro : BoundedSeq(BoundedSeq(GiroRawRows, MaxFileRows), 2),
                visa : BoundedSeq(BoundedSeq(VisaRawRows, MaxFileRows), 1)]
    /\ json_file = save_categories([DefaultDocument EXCEPT !.rules = << <<"A", << <<"k">> >> >> >>])
    /\ args = <<>>
    /\ ret = <<>>
    /\ store = IdleStore
    /\ giro_dfs = <<>>
    /\ visa_dfs = <<>>
    /\ sorted_df = <<>>
    /\ override_df = <<>>
    /\ combined_df = <<>>
    /\ last_edit = <<>>
    /\ tie_order = "kept"
    /\ cache = NoCache
    /\ pc = "load_files"

NextLoad == LoadAllFiles

SpecLoad == InitLoad /\ [][NextLoad]_vars

\* the files in the order load_all_data loads them, and the frames it returns
AllFiles == csv.giro \o csv.visa
AllFrames == giro_dfs \o visa_dfs

\* what load_all_data returned is as C20 says
DroppedAndCounted ==
    /\ \A f \in 1..Len(AllFrames) : \A i \in 1..Len(AllFrames[f]) : AllFrames[f][i].Datum # NaT
    /\ \A f \in 1..Len(AllFrames) : ret.failures[f] = Len(AllFiles[f]) - Len(AllFrames[f])
    /\ ret.parse_failures = Sum(ret.failures)

\* C20 (date-parse failures are dropped and counted, never raised): no loader
\* raises; no returned row has a null Datum, every file's failure count is the
\* number of its rows less the number of rows returned, and the total is the
\* sum of the counts.
C20_DroppedAndCounted ==
    /\ pc # "error"
    /\ pc = "files_loaded" => DroppedAndCounted

\* the rows of a file that C21 says are dropped: bad date or bad amount
BadRows(file, date_col) ==
    {i \in 1..Len(file) : parse_german_date(file[i][date_col]) = NaT \/ file[i].Betrag = BadAmount}

DateCol(f) == IF f <= Len(csv.giro) THEN "Buchungsdatum" ELSE "Belegdatum"

\* C21 (a row with a bad amount is dropped and counted like a row with a bad
\* date): when load_all_data returns, every file's failure count is the number
\* of its rows with a bad date or a bad amount, and as many rows are missing
\* from the frame returned for it.
C21_BadAmountDropped ==
    pc = "files_loaded" =>
        \A f \in 1..Len(AllFiles) :
            /\ ret.failures[f] = Cardinality(BadRows(AllFiles[f], DateCol(f)))
            /\ Len(AllFrames[f]) = Len(AllFiles[f]) - Cardinality(BadRows(AllFiles[f], DateCol(f)))

-----------------------------------------------------------------------------
(* The handlers of the app on a rule-store file that lacks sections.       *)

\* the transaction table and its override save (app.py lines 398-450): the
\* options of the category column are read from cat_config["rules"], the edit
\* is written to cat_config["overrides"][key]
EditorSaveOverride ==
    /\ pc = "settings"
    /\ args.op = "save_override"
    /\ LET cat_config == load_categories(json_file)
       IN  IF "rules" \notin DOMAIN cat_config \/ "overrides" \notin DOMAIN cat_config
           THEN \* KeyError at line 400 or at line 448
                /\ pc' = "error"
                /\ UNCHANGED <<json_file, ret>>
           ELSE /\ json_file' = save_categories(
                                   [cat_config EXCEPT !.overrides = SetItem(@, args.key, args.new_cat)])
                /\ ret' = [msg |-> "rerun"]
                /\ pc' = "done"
    /\ UNCHANGED <<cache, tie_order, args, store, csv, giro_dfs, visa_dfs, sorted_df, override_df, combined_df, last_edit>>

\* an add that stores the IBAN as it was typed
AddIbanRuleAsTyped ==
    /\ pc = "settings"
    /\ args.op = "add_iban"
    /\ LET categories_config == load_categories(json_file)
           iban_rules == Section(categories_config, "iban_rules")
       IN  IF args.iban # <<>> /\ args.iban \notin Keys(iban_rules)
           THEN /\ json_file' = save_categories(
                                   [categories_config EXCEPT
                                       !.iban_rules = SetItem(@, args.iban, args.cat)])
                /\ ret' = [msg |-> "success"]
           ELSE /\ ret' = [msg |-> "none"]
                /\ UNCHANGED json_file
    /\ pc' = "done"
    /\ UNCHANGED <<cache, tie_order, args, store, csv, giro_dfs, visa_dfs, sorted_df, override_df, combined_df, last_edit>>

\* the "Hinzufuegen" button of the IBAN rules (app.py lines 1373-1419)
AddIbanRule ==
    /\ pc = "settings"
    /\ args.op = "add_iban"
    /\ LET categories_config == load_categories(json_file)
           iban_rules == Section(categories_config, "iban_rules")
           new_iban == args.iban
       IN  IF "rules" \notin DOMAIN categories_config
           THEN \* KeyError at line 1374
                /\ pc' = "error"
                /\ UNCHANGED <<json_file, ret>>
           ELSE IF new_iban # <<>> /\ Upper(new_iban) \notin Keys(iban_rules)
           THEN IF "iban_rules" \notin DOMAIN categories_config
                THEN \* KeyError at line 1414
                     /\ pc' = "error"
                     /\ UNCHANGED <<json_file, ret>>
                ELSE /\ json_file' = save_categories(
                                   [categories_config EXCEPT
                                       !.iban_rules = SetItem(@, Upper(new_iban), args.cat)])
                     /\ ret' = [msg |-> "success"]
                     /\ pc' = "done"
           ELSE /\ ret' = [msg |-> "none"]
                /\ pc' = "done"
                /\ UNCHANGED json_file
    /\ UNCHANGED <<cache, tie_order, args, store, csv, giro_dfs, visa_dfs, sorted_df, override_df, combined_df, last_edit>>

\* categorize_transactions_vectorized(df, is_visa) under the document on disk
\* (rules.py lines 21-22)
CategorizeStored ==
    /\ pc = "settings"
    /\ args.op = "categorize"
    /\ ret' = categorize_transactions_vectorized(args.df, args.is_visa, load_categories(json_file))
    /\ pc' = "done"
    /\ UNCHANGED <<cache, tie_order, json_file, args, store, csv, giro_dfs, visa_dfs, sorted_df, override_df, combined_df, last_edit>>

\* a complete rule-store document
FullDocument ==
    [config |-> NoCols,
     rules |-> << <<"A", << <<"k">> >> >> >>,
     iban_rules |-> << <<DE1, "Gehalt">> >>,
     overrides |-> << <<(<<"2", "_", "x">>), "Umbuchungen">> >>,
     clusters |-> << <<(<<"M">>), << <<"k">> >> >> >>]

\* the document without the sections of a set
Without(doc, missing) == [name \in DOMAIN doc \ missing |-> doc[name]]

\* the document with an empty mapping for every section it lacks
Completed(doc) == [name \in DOMAIN FullDocument |-> IF name \in DOMAIN doc THEN doc[name] ELSE IF name = "config" THEN NoCols ELSE <<>>]

AbsenceArgs ==
    {[op |-> "add_category", name |-> n] : n \in {"A", "C"}}
    \cup {[op |-> "add_cluster", name |-> n, lines |-> << <<"k">> >>] : n \in {<<"M">>, <<"N">>}}
    \cup {[op |-> "save_override", key |-> k, new_cat |-> "Gehalt"] :
              k \in {<<"2", "_", "x">>, <<"3", "_", "y">>}}
    \cup {[op |-> "add_iban", iban |-> i, cat |-> "Umbuchungen"] : i \in {<<"d", "e", "1">>, DE2}}
    \cup {[op |-> "categorize", is_visa |-> v,
           df |-> <<[Beschreibung |-> <<"K">>, Zahlungsempfaenger |-> <<"K">>,
                     Verwendungszweck |-> NULL, IBAN |-> DE1]>>] : v \in BOOLEAN}

InitAbsence ==
    /\ \E missing \in SUBSET DOMAIN FullDocument :
          json_file = save_categories(Without(FullDocument, missing))
    /\ args \in AbsenceArgs
    /\ ret = <<>>
    /\ store = IdleStore
    /\ csv = IdleCsv
    /\ giro_dfs = <<>>
    /\ visa_dfs = <<>>
    /\ sorted_df = <<>>
    /\ override_df = <<>>
    /\ combined_df = <<>>
    /\ last_edit = <<>>
    /\ tie_order = "kept"
    /\ cache = NoCache
    /\ pc = "settings"

NextAbsence == AddCategory \/ AddCluster \/ EditorSaveOverride \/ AddIbanRule \/ CategorizeStored

SpecAbsence == InitAbsence /\ [][NextAbsence]_vars

\* C22 (configuration absence is never fatal): on a document that lacks
\* sections no operation raises, and categorization gives what it gives on
\* the document with an empty mapping for every section it lacks.
C22_AbsenceNotFatal ==
    /\ pc # "error"
    /\ (pc = "done" /\ args.op = "categorize") =>
          ret = categorize_transactions_vectorized(
                    args.df, args.is_visa, Completed(load_categories(json_file)))

-----------------------------------------------------------------------------
(* Claims about the assembly on malformed batches, checked under           *)
(* SpecAssemble.                                                           *)

\* C23 (no exception for malformed input data): prepare_combined_data brings
\* every batch, one with a null description included, to a combined view:
\* it never raises, and when it has run the view holds a row for every row of
\* the batches.
C23_NoExceptionOnNulls ==
    /\ pc # "error"
    /\ pc = "render" => Len(combined_df) = Len(giro_dfs) + Len(visa_dfs)

-----------------------------------------------------------------------------
(* Two sessions on one store file: one runs save_categories, the other      *)
(* load_categories (config.py lines 14-43). There is no lock and no         *)
(* temporary file: open(filepath, "w") empties the file, the text of        *)
(* json.dump reaches it block by block, the last block when the file is     *)
(* closed. Here pc holds the position of both sessions, store the document  *)
(* saved before, args the document being saved, ret what the reader got.    *)

\* what the reader has when json.load raises on a text that is no JSON document
JSONDecodeError == [raised |-> TRUE]

\* the file while it is written: `written` of its `of` blocks are in it (a
\* block of the model is one section of the document)
OpenedFile(categories) ==
    save_categories(categories) @@ [written |-> 0, of |-> Cardinality(DOMAIN categories)]

\* load_categories() on the file as it is at this moment: a text that lacks
\* blocks does not parse
ReadFile(file) ==
    IF "written" \in DOMAIN file /\ file.written < file.of
    THEN JSONDecodeError
    ELSE [raised |-> FALSE,
          doc |-> load_categories([exists |-> file.exists]
                                  @@ (IF file.exists THEN [text |-> file.text] ELSE NoCols))]

\* open(filepath, "w") (config.py line 42)
WriterOpen ==
    /\ pc.writer = "start"
    /\ json_file' = OpenedFile(args.doc)
    /\ pc' = [pc EXCEPT !.writer = "open"]
    /\ UNCHANGED <<cache, tie_order, args, ret, store, csv, giro_dfs, visa_dfs, sorted_df, override_df, combined_df, last_edit>>

\* a block of the text of json.dump reaches the file (config.py line 43)
WriterFlush ==
    /\ pc.writer = "open"
    /\ json_file.written + 1 < json_file.of
    /\ json_file' = [json_file EXCEPT !.written = @ + 1]
    /\ UNCHANGED <<cache, tie_order, pc, args, ret, store, csv, giro_dfs, visa_dfs, sorted_df, override_df, combined_df, last_edit>>

\* the end of the with block: the rest of the text is written, the file closed
WriterClose ==
    /\ pc.writer = "open"
    /\ json_file' = save_categories(args.doc)
    /\ pc' = [pc EXCEPT !.writer = "closed"]
    /\ UNCHANGED <<cache, tie_order, args, ret, store, csv, giro_dfs, visa_dfs, sorted_df, override_df, combined_df, last_edit>>

\* load_categories() of the other session (config.py lines 26-29)
ReaderLoad ==
    /\ pc.reader = "start"
    /\ ret' = ReadFile(json_file)
    /\ pc' = [pc EXCEPT !.reader = IF ReadFile(json_file).raised THEN "error" ELSE "read"]
    /\ UNCHANGED <<cache, tie_order, json_file, args, store, csv, giro_dfs, visa_dfs, sorted_df, override_df, combined_df, last_edit>>

InitConcurrent ==
    /\ json_file \in {NoFile, save_categories(FullDocument)}
    /\ store = load_categories(json_file)
    /\ \E d \in SettingsDocuments : args = [doc |-> d]
    /\ ret = <<>>
    /\ csv = IdleCsv
    /\ giro_dfs = <<>>
    /\ visa_dfs = <<>>
    /\ sorted_df = <<>>
    /\ override_df = <<>>
    /\ combined_df = <<>>
    /\ last_edit = <<>>
    /\ tie_order = "kept"
    /\ cache = NoCache
    /\ pc = [writer |-> "start", reader |-> "start"]

NextConcurrent == WriterOpen \/ WriterFlush \/ WriterClose \/ ReaderLoad

SpecConcurrent == InitConcurrent /\ [][NextConcurrent]_vars

\* C24 (a reader during a save): load_categories never fails to parse, and
\* what it returns is the complete document saved before or the complete
\* document being saved.
C24_ReaderSeesSnapshot ==
    /\ pc.reader # "error"
    /\ pc.reader = "read" => ret.doc \in {store, args.doc}

-----------------------------------------------------------------------------
(* Specification SpecRerun: prepare_combined_data computed a second time   *)
(* on the batches and the store of the first run.                          *)

\* the view prepare_combined_data computes (app.py lines 73-127) from the
\* batches and the three sections it is given, ties of the sort left as the
\* build leaves them
CombinedView(giro, visa, overrides, clusters, config, ties) ==
    LET sorted == SortByDatumDescTies(Concat(giro, visa), ties)
        overridden == ApplyOverrides(sorted, json_loads(hashable_config(overrides)))
    IN  WithClusters(Reclassify(overridden, SettlementPatterns(config)),
                     json_loads(hashable_config(clusters)))

\* a second run whose sort leaves ties the other way round
PrepareAgainOtherTies ==
    /\ pc = "render"
    /\ ret' = combined_df
    /\ combined_df' = CombinedView(giro_dfs, visa_dfs, Section(store, "overrides"),
                                   Section(store, "clusters"), Section(store, "config"),
                                   IF tie_order = "kept" THEN "reversed" ELSE "kept")
    /\ pc' = "rerun"
    /\ UNCHANGED <<cache, tie_order, json_file, args, store, csv, giro_dfs, visa_dfs, sorted_df, override_df, last_edit>>

\* the computation of prepare_combined_data once more, on the same batches
\* and sections; ret keeps the view of the first run
PrepareAgain ==
    /\ pc = "render"
    /\ ret' = combined_df
    /\ combined_df' = CombinedView(giro_dfs, visa_dfs, Section(store, "overrides"),
                                   Section(store, "clusters"), Section(store, "config"),
                                   tie_order)
    /\ pc' = "rerun"
    /\ UNCHANGED <<cache, tie_order, json_file, args, store, csv, giro_dfs, visa_dfs, sorted_df, override_df, last_edit>>

NextRerun == PrepareCombinedData \/ PrepareAgain

SpecRerun == InitAssemble /\ [][NextRerun]_vars

-----------------------------------------------------------------------------
(* Specification SpecCache: the passes of the script with the two          *)
(* st.cache_data caches. A cached function is looked up by the arguments   *)
(* whose names do not begin with an underscore: load_all_data(              *)
(* _file_manifest, data_dir) by data_dir alone, prepare_combined_data(      *)
(* _giro_dfs, _visa_dfs, overrides_hash, cluster_rules_hash, config_hash)   *)
(* by the three hashes. The app's save_categories clears both caches.       *)

\* load_all_data(get_csv_file_manifest(data_dir), data_dir=data_dir) and
\* load_categories() (app.py lines 150-153; loader.py line 108): data_dir is
\* the same in every pass, so an entry of the cache is a hit
CachedLoadAllData ==
    /\ pc = "load"
    /\ LET hit == cache.load_all_data # <<>>
           result == IF hit THEN cache.load_all_data[1]
                     ELSE [giro_dfs |-> LoadedGiro(csv.giro, store),
                           visa_dfs |-> LoadedVisa(csv.visa, store)]
       IN  /\ giro_dfs' = result.giro_dfs
           /\ visa_dfs' = result.visa_dfs
           /\ cache' = [cache EXCEPT !.load_all_data = <<result>>]
    /\ pc' = "prepare"
    /\ UNCHANGED <<tie_order, json_file, args, ret, store, csv, sorted_df, override_df, combined_df, last_edit>>

\* prepare_combined_data(giro_dfs, visa_dfs, ...) as the script calls it
\* (app.py lines 70-71 and 166-172): looked up by the three hashes
CachedPrepareCombinedData ==
    /\ pc = "prepare"
    /\ LET key == <<hashable_config(Section(store, "overrides")),
                    hashable_config(Section(store, "clusters")),
                    Section(store, "config")>>
           entries == cache.prepare_combined_data
           hits == {e \in 1..Len(entries) : entries[e].key = key}
           result == IF hits # {} THEN entries[CHOOSE e \in hits : TRUE].value
                     ELSE CombinedView(giro_dfs, visa_dfs, Section(store, "overrides"),
                                       Section(store, "clusters"), Section(store, "config"),
                                       tie_order)
       IN  /\ combined_df' = result
           /\ cache' = IF hits # {} THEN cache
                       ELSE [cache EXCEPT !.prepare_combined_data =
                                              Append(@, [key |-> key, value |-> result])]
    /\ pc' = "render"
    /\ UNCHANGED <<tie_order, json_file, args, ret, store, csv, giro_dfs, visa_dfs, sorted_df, override_df, last_edit>>

\* a save that leaves the caches as they are
AppSaveNoClear ==
    /\ pc = "render"
    /\ \E d \in [rules : {<<>>, << <<"A", << <<"k">> >> >> >>},
                  iban_rules : {<<>>},
                  overrides : {<<>>},
                  clusters : {<<>>, << <<(<<"M">>), << <<"k">> >> >> >>},
                  config : {NoCols}] :
          /\ d # store
          /\ store' = d
    /\ last_edit' = [op |-> "save", view |-> combined_df]
    /\ pc' = "load"
    /\ UNCHANGED <<cache, tie_order, json_file, args, ret, csv, giro_dfs, visa_dfs, sorted_df, override_df, combined_df>>

\* the transactions of the files in data_dir in the model
CacheGiroRow ==
    [Datum |-> D1, Betrag |-> <<-4599>>, Zahlungsempfaenger |-> <<"K">>,
     Verwendungszweck |-> NULL, IBAN |-> NULL]
CacheVisaRow == [Datum |-> D2, Betrag |-> <<-4599>>, Beschreibung |-> <<"K">>]

CacheCsvs ==
    {[giro |-> <<CacheGiroRow>>, visa |-> <<>>],
     [giro |-> <<CacheGiroRow>>, visa |-> <<CacheVisaRow>>],
     [giro |-> <<>>, visa |-> <<CacheVisaRow>>]}

\* the documents in the model: with and without a keyword rule, an override
\* of the card transaction, a cluster
CacheStores ==
    [rules : {<<>>, << <<"A", << <<"k">> >> >> >>},
     iban_rules : {<<>>},
     overrides : {<<>>, << <<get_override_key(VisaTemp(LoadedVisa(<<CacheVisaRow>>, IdleStore)[1])),
                            "Umbuchungen">> >>},
     clusters : {<<>>, << <<(<<"M">>), << <<"k">> >> >> >>},
     config : {NoCols}]

\* a write of the store through the app's save_categories (app.py lines
\* 60-67): any handler's change of the document, then both caches cleared,
\* then the next pass (st.rerun or the next interaction)
AppSave ==
    /\ pc = "render"
    /\ \E d \in CacheStores :
          /\ d # store
          /\ store' = d
    /\ cache' = NoCache
    /\ last_edit' = [op |-> "save", view |-> combined_df]
    /\ pc' = "load"
    /\ UNCHANGED <<tie_order, json_file, args, ret, csv, giro_dfs, visa_dfs, sorted_df, override_df, combined_df>>

\* a CSV file of data_dir is added, removed or modified between two passes:
\* get_csv_file_manifest returns another string in the next pass
ChangeCsv ==
    /\ pc = "render"
    /\ \E c \in CacheCsvs :
          /\ c # csv
          /\ csv' = c
    /\ last_edit' = [op |-> "csv", view |-> combined_df]
    /\ pc' = "load"
    /\ UNCHANGED <<cache, tie_order, json_file, args, ret, store, giro_dfs, visa_dfs, sorted_df, override_df, combined_df>>

InitCache ==
    /\ csv \in CacheCsvs
    /\ store \in CacheStores
    /\ args = <<>>
    /\ ret = <<>>
    /\ giro_dfs = <<>>
    /\ visa_dfs = <<>>
    /\ sorted_df = <<>>
    /\ override_df = <<>>
    /\ combined_df = <<>>
    /\ last_edit = [op |-> "none", view |-> <<>>]
    /\ tie_order = "kept"
    /\ cache = NoCache
    /\ json_file = NoFile
    /\ pc = "load"

NextCache == CachedLoadAllData \/ CachedPrepareCombinedData \/ AppSave \/ ChangeCsv

SpecCache == InitCache /\ [][NextCache]_vars

\* the categories of a batch are those the categorizer gives its rows under
\* the document
CategorizedUnder(df, is_visa, doc) ==
    \A i \in 1..Len(df) :
        df[i].Kategorie = categorize_transactions_vectorized(df, is_visa, doc)[i]

\* C26 (cache freshness after a store write): in every pass the categories of
\* the batches are those of the categorizer under the document on disk, and
\* the view is computed from these batches with the overrides, clusters and
\* config of the document on disk; a save is followed by no pass that shows a
\* value of the document as it was before.
C26_FreshAfterSave ==
    pc = "render" =>
        /\ CategorizedUnder(giro_dfs, FALSE, store)
        /\ CategorizedUnder(visa_dfs, TRUE, store)
        /\ combined_df = CombinedView(giro_dfs, visa_dfs, store.overrides, store.clusters,
                                      store.config, tie_order)

\* the pass after a save shows another view than the pass before it
C26_Witness ==
    /\ pc = "render"
    /\ last_edit.op = "save"
    /\ Len(last_edit.view) = Len(combined_df)
    /\ \E i \in 1..Len(combined_df) :
          /\ last_edit.view[i].Kategorie = Sonstiges
          /\ combined_df[i].Kategorie = "A"
    /\ cache.load_all_data # <<>>

\* C27 (cache invalidation by file manifest): in every pass the batches are
\* those of the files as they are in data_dir, and the view holds their
\* transactions.
C27_CurrentFiles ==
    pc = "render" =>
        /\ giro_dfs = LoadedGiro(csv.giro, store)
        /\ visa_dfs = LoadedVisa(csv.visa, store)
        /\ Len(combined_df) = Len(csv.giro) + Len(csv.visa)

-----------------------------------------------------------------------------
(* Specification SpecRename: the "Umbenennen" button of a category on a    *)
(* stored document; store holds the document as it was before the click.   *)

\* dict.pop(k) as far as the mapping goes: the entries but the one of k
Pop(mapping, k) == SelectSeq(mapping, LAMBDA e : e[1] # k)

\* the "Umbenennen" button of category args.category (app.py lines 1210-1219):
\* fresh_config["rules"][new_name] = fresh_config["rules"].pop(category)
RenameCategory ==
    /\ pc = "settings"
    /\ args.op = "rename_category"
    /\ IF args.new_name # "" /\ args.new_name # args.category
       THEN LET fresh_config == load_categories(json_file)
            IN  IF "rules" \notin DOMAIN fresh_config
                THEN \* fresh_config["rules"] raises KeyError
                     /\ pc' = "error"
                     /\ UNCHANGED json_file
                ELSE /\ pc' = "done"
                     /\ IF args.new_name \notin Keys(fresh_config.rules)
                        THEN json_file' = save_categories(
                                [fresh_config EXCEPT !.rules =
                                    SetItem(Pop(@, args.category), args.new_name,
                                            Lookup(@, args.category, KeyError))])
                        ELSE UNCHANGED json_file
       ELSE /\ pc' = "done"
            /\ UNCHANGED json_file
    /\ UNCHANGED <<cache, tie_order, args, ret, store, csv, giro_dfs, visa_dfs, sorted_df, override_df, combined_df, last_edit>>

\* the documents of the model: up to two categories with one keyword each,
\* an IBAN rule, an override, a cluster
RenameDocuments ==
    {[config |-> NoCols, rules |-> rules, iban_rules |-> << <<DE1, "A">> >>,
      overrides |-> << <<(<<"2", "_", "x">>), "A">> >>,
      clusters |-> << <<(<<"M">>), << <<"k">> >> >> >>] :
        rules \in RuleSections({"A", "B"}, {<< <<"k">> >>, << <<"x">> >>}, 2)}

\* card transactions the rules are tried on
RenameRows == <<[Beschreibung |-> <<"K">>], [Beschreibung |-> <<"x">>], [Beschreibung |-> <<"a">>]>>

InitRename ==
    /\ \E d \in RenameDocuments :
          /\ store = d
          /\ json_file = save_categories(d)
          /\ \E category \in Keys(d.rules), new_name \in {"", "A", "B", "Y"} :
                args = [op |-> "rename_category", category |-> category, new_name |-> new_name]
    /\ ret = <<>>
    /\ csv = IdleCsv
    /\ giro_dfs = <<>>
    /\ visa_dfs = <<>>
    /\ sorted_df = <<>>
    /\ override_df = <<>>
    /\ combined_df = <<>>
    /\ last_edit = <<>>
    /\ tie_order = "kept"
    /\ cache = NoCache
    /\ pc = "settings"

NextRename == RenameCategory

SpecRename == InitRename /\ [][NextRename]_vars

\* the category of every transaction of the rows under the document
CategoriesUnder(doc) == categorize_transactions_vectorized(RenameRows, TRUE, doc)

\* C28 (rename preserves the declared order): after a rename of X to an
\* unused name Y the rules are those of before with Y at X's place and with
\* X's keywords, the other sections are as before, every transaction that was
\* categorized X is categorized Y and every other keeps its category.
C28_RenameKeepsOrder ==
    (pc = "done" /\ args.new_name \notin Keys(store.rules) \cup {""}) =>
        LET after == load_categories(json_file)
        IN  /\ Len(after.rules) = Len(store.rules)
            /\ \A i \in 1..Len(store.rules) :
                  after.rules[i] = IF store.rules[i][1] = args.category
                                   THEN <<args.new_name, store.rules[i][2]>>
                                   ELSE store.rules[i]
            /\ \A name \in {"iban_rules", "overrides", "clusters", "config"} :
                  after[name] = store[name]
            /\ \A i \in 1..Len(RenameRows) :
                  CategoriesUnder(after)[i] =
                      IF CategoriesUnder(store)[i] = args.category THEN args.new_name
                      ELSE CategoriesUnder(store)[i]

-----------------------------------------------------------------------------
(* Specification SpecIban: the IBAN rules of the settings page, one        *)
(* handler after another on the stored document.                           *)

\* all_categories of the IBAN rules (app.py line 1374)
IbanCategories(categories_config) == {"Umbuchungen", "Gehalt"} \cup Keys(categories_config.rules)

\* the category select box of the rule of args.iban (app.py lines 1381-1392):
\* a category other than the rule's is written and saved
ChangeIbanRule ==
    /\ pc = "settings"
    /\ args.op = "change_iban"
    /\ LET categories_config == load_categories(json_file)
           iban_rules == Section(categories_config, "iban_rules")
       IN  /\ args.iban \in Keys(iban_rules)
           /\ IF "rules" \notin DOMAIN categories_config
              THEN \* KeyError at line 1374
                   /\ pc' = "error"
                   /\ UNCHANGED <<json_file, ret>>
              ELSE /\ args.new_cat \in IbanCategories(categories_config)
                   /\ pc' = "done"
                   /\ IF args.new_cat # Lookup(iban_rules, args.iban, KeyError)
                      THEN /\ json_file' = save_categories(
                                   [categories_config EXCEPT
                                       !.iban_rules = SetItem(@, args.iban, args.new_cat)])
                           /\ ret' = [msg |-> "success"]
                      ELSE /\ ret' = [msg |-> "none"]
                           /\ UNCHANGED json_file
    /\ UNCHANGED <<cache, tie_order, args, store, csv, giro_dfs, visa_dfs, sorted_df, override_df, combined_df, last_edit>>

\* the "X" button of the rule of args.iban (app.py lines 1394-1398)
DeleteIbanRule ==
    /\ pc = "settings"
    /\ args.op = "delete_iban"
    /\ LET categories_config == load_categories(json_file)
           iban_rules == Section(categories_config, "iban_rules")
       IN  /\ args.iban \in Keys(iban_rules)
           /\ IF "rules" \notin DOMAIN categories_config
              THEN \* KeyError at line 1374
                   /\ pc' = "error"
                   /\ UNCHANGED <<json_file, ret>>
              ELSE /\ json_file' = save_categories(
                                   [categories_config EXCEPT !.iban_rules = Pop(@, args.iban)])
                   /\ ret' = [msg |-> "success"]
                   /\ pc' = "done"
    /\ UNCHANGED <<cache, tie_order, args, store, csv, giro_dfs, visa_dfs, sorted_df, override_df, combined_df, last_edit>>

\* what the user can do on the IBAN rules of a document: type an IBAN (in
\* any letter case, or none) and add it, pick a category for a listed rule,
\* delete a listed rule
IbanArgs(doc) ==
    {[op |-> "add_iban", iban |-> i, cat |-> c] :
        i \in {<<>>, <<"d", "e", "1">>, DE1, <<"D", "e", "2">>}, c \in IbanCategories(doc)}
    \cup {[op |-> "change_iban", iban |-> i, new_cat |-> c] :
              i \in Keys(doc.iban_rules), c \in IbanCategories(doc)}
    \cup {[op |-> "delete_iban", iban |-> i] : i \in Keys(doc.iban_rules)}

\* the script has rerun and the user does the next thing
NextClick ==
    /\ pc = "done"
    /\ args' \in IbanArgs(load_categories(json_file))
    /\ pc' = "settings"
    /\ UNCHANGED <<cache, tie_order, json_file, ret, store, csv, giro_dfs, visa_dfs, sorted_df, override_df, combined_df, last_edit>>

\* documents whose iban_rules keys are upper case
IbanDocuments ==
    {[config |-> NoCols, rules |-> << <<"A", << <<"k">> >> >> >>, iban_rules |-> iban_rules,
      overrides |-> <<>>, clusters |-> <<>>] :
        iban_rules \in {<<>>, << <<DE1, "Gehalt">> >>, << <<DE2, "A">>, <<DE1, "Umbuchungen">> >>}}

InitIban ==
    /\ \E d \in IbanDocuments :
          /\ json_file = save_categories(d)
          /\ args \in IbanArgs(d)
    /\ ret = <<>>
    /\ store = IdleStore
    /\ csv = IdleCsv
    /\ giro_dfs = <<>>
    /\ visa_dfs = <<>>
    /\ sorted_df = <<>>
    /\ override_df = <<>>
    /\ combined_df = <<>>
    /\ last_edit = <<>>
    /\ tie_order = "kept"
    /\ cache = NoCache
    /\ pc = "settings"

NextIban == AddIbanRule \/ ChangeIbanRule \/ DeleteIbanRule \/ NextClick

SpecIban == InitIban /\ [][NextIban]_vars

\* the keys of the stored IBAN rules
StoredIbans == Keys(load_categories(json_file).iban_rules)

\* every stored key is upper case and no two are equal ignoring case
KeysNormalized ==
    /\ \A k \in StoredIbans : Upper(k) = k
    /\ \A k1, k2 \in StoredIbans : Upper(k1) = Upper(k2) => k1 = k2
    /\ LET rules == load_categories(json_file).iban_rules
       IN  \A i, j \in 1..Len(rules) : rules[i][1] = rules[j][1] => i = j

\* a step that adds an IBAN the store holds in some letter case
AddOfPresent ==
    /\ pc = "settings"
    /\ args.op = "add_iban"
    /\ \E k \in StoredIbans : Upper(k) = Upper(args.iban)

\* C29 (IBAN rule keys stay normalized): from a store with upper-case keys,
\* after any sequence of adds, category changes and deletes every key is upper
\* case and no two keys are equal ignoring case; an add of an IBAN that is
\* present in any letter case leaves the store as it is.
C29_IbanKeysNormalized ==
    /\ []KeysNormalized
    /\ [][AddOfPresent => json_file' = json_file]_vars

\* an IBAN typed in lower case was not added a second time to a store of two
\* rules, one of them added in mixed case before
C29_Witness ==
    /\ pc = "done"
    /\ args.op = "add_iban"
    /\ args.iban = <<"d", "e", "1">>
    /\ ret.msg = "none"
    /\ load_categories(json_file).iban_rules = << <<DE2, "A">>, <<DE1, "Gehalt">> >>

-----------------------------------------------------------------------------
(* Claims about the reach of a manual override, checked under Spec.        *)

\* the rows of the view being returned that the last edit was made on: those
\* whose current key is the key the editor saved under
EditedRows == {i \in 1..Len(combined_df') : get_override_key(combined_df'[i]) = last_edit[1][1]}

\* the two rows differ in date, description hash or amount
DifferInKeyFields(r1, r2) ==
    \/ r1.Datum # r2.Datum
    \/ HashSegment(r1) # HashSegment(r2)
    \/ r1.Betrag # r2.Betrag

=============================================================================
